---- MODULE Spec2Model ----
(***************************************************************************)
(* A model of the tree-walking evaluator of the alpha interpreter          *)
(* (src/src/interpreter): the environment chain, the recursive evaluate,   *)
(* the call dispatcher, promises and await, and the module loader.         *)
(*                                                                         *)
(* The evaluator is a recursive function of the expression tree and the    *)
(* interpreter state; it is modelled by the recursive operator Evaluate,   *)
(* one CASE arm per match arm of Interpreter::evaluate.  One step of the   *)
(* state machine is one turn of the loop of Interpreter::interpret.        *)
(***************************************************************************)
EXTENDS Integers, Sequences, FiniteSets, TLC

VARIABLES
    prog,          \* index of the script being run (main.rs: the parsed file)
    pc,            \* index of the next top-level expression of interpret's loop
    status,        \* "running" | "ok" | "error" | "panic"
    last_value,    \* interpret's last_value
    last_error,    \* the error interpret returned (a record), when status = "error"
    environment,   \* Interpreter.environment: handle of the current environment
    heap,          \* the environments behind the Arc<Mutex<Environment>> handles
    promises,      \* the promise states behind the Arc<Mutex<PromiseState>> handles
    stdout,        \* the values print has written, in order
    hash_order,    \* iteration order of the module registry (a HashMap)
    events,        \* history: what each block, call, await, import ... did
    call_stack,    \* history: the function activations under way
    evals,         \* history: how many evaluations have started
    chars,         \* Tokenizer::tokenize: the input text as its Vec<char>
    current,       \* Tokenizer.current (0-based index into chars)
    line,          \* Tokenizer.line
    tokens,        \* Tokenizer.tokens
    errors,        \* Tokenizer.errors
    lexing,        \* "idle" | "run" (inside tokenize's loop) | "done"
    parser,        \* struct Parser: [tokens, current (0-based)]
    parsed,        \* Parser::parse: its `statements`, the expressions so far
    lost,          \* history: right-hand sides whose parser error was dropped
    parsing        \* "idle" | "run" (inside parse's loop) | "ok" | "error"

\* The interpreter's and the tokenizer's part of the state.
interp == <<prog, pc, status, last_value, last_error, environment, heap,
            promises, stdout, hash_order, events, call_stack, evals>>
lexer == <<chars, current, line, tokens, errors, lexing>>
parse == <<parser, parsed, lost, parsing>>

vars == <<prog, pc, status, last_value, last_error, environment, heap,
          promises, stdout, hash_order, events, call_stack, evals,
          chars, current, line, tokens, errors, lexing,
          parser, parsed, lost, parsing>>

----------------------------------------------------------------------------
(* Values (value.rs:8-24).                                                 *)

Number(n) == [t |-> "Number", n |-> n]
String(s) == [t |-> "String", s |-> s]
Boolean(b) == [t |-> "Boolean", b |-> b]
Nil == [t |-> "Nil"]
Function(name, params, body) ==
    [t |-> "Function", name |-> name, params |-> params, body |-> body]
AsyncFunction(name, params, body) ==
    [t |-> "AsyncFunction", name |-> name, params |-> params, body |-> body]
NativeFunction(name, arity) ==
    [t |-> "NativeFunction", name |-> name, arity |-> arity]
Class(name, methods) == [t |-> "Class", name |-> name, methods |-> methods]
Instance(name, env) == [t |-> "Instance", name |-> name, env |-> env]
Array(values) == [t |-> "Array", a |-> values]
Dictionary(values) == [t |-> "Dictionary", d |-> values]
Promise(handle) == [t |-> "Promise", p |-> handle]

\* The empty HashMap.
EmptyMap == [x \in {} |-> Nil]

\* HashMap::insert.
Insert(map, key, value) == (key :> value) @@ map

----------------------------------------------------------------------------
(* Results: InterpreterResult<Value>, and a panic of the evaluator thread. *)

Ok(st, v) == [st |-> st, k |-> "Ok", v |-> v]
Err(st, e) == [st |-> st, k |-> "Err", e |-> e]
Panicked(st) == [st |-> st, k |-> "Panic"]

\* InterpreterError::runtime_error(RuntimeErrorKind::...) (error/mod.rs).
RuntimeError(kind) == [kind |-> kind]
UndefinedVariable(name) == [kind |-> "UndefinedVariable", name |-> name]
\* RuntimeErrorKind::ExpextedArgument(line, exptected, got): the fields are
\* named as Display (error/mod.rs:173) names them.
ExpextedArgument(exptected, got) ==
    [kind |-> "ExpextedArgument", exptected |-> exptected, got |-> got]
ReturnError(value) == [kind |-> "Return", v |-> value]
ModuleError(msg) == [kind |-> "RuntimeError", msg |-> msg]

----------------------------------------------------------------------------
(* Paths (std::path): a path is absolute or not and has components; a      *)
(* component has a stem and an extension.                                  *)

Comp(stem, ext) == [stem |-> stem, ext |-> ext]
Path(abs, comps) == [abs |-> abs, comps |-> comps]

\* PathBuf::new()
EmptyPath == Path(FALSE, <<>>)

\* Path::join: an absolute argument replaces the base.
Join(base, path) ==
    IF path.abs THEN path ELSE Path(base.abs, base.comps \o path.comps)

\* Path::file_stem: of the last component; None (<<>>) when there is none.
FileStem(path) ==
    IF path.comps = <<>> THEN <<>> ELSE <<path.comps[Len(path.comps)].stem>>

\* Path::parent
Parent(path) ==
    IF path.comps = <<>> THEN path
    ELSE Path(path.abs, SubSeq(path.comps, 1, Len(path.comps) - 1))

----------------------------------------------------------------------------
(* Environments (enviroment.rs).  An environment is a record on the heap;  *)
(* a handle is its index.  enclosing = 0 is None.                          *)

\* The native table that register_native_functions fills: name -> arity.
Natives == ("print" :> 1) @@ ("typeOf" :> 1) @@ ("delay" :> 1)

\* Environment::new(base_path) followed by register_native_functions.
NewEnvironment(base_path) ==
    [values |-> EmptyMap, enclosing |-> 0, natives |-> Natives,
     modules |-> EmptyMap, base_path |-> base_path]

\* Environment::new_with_enclosing: a child with no bindings, no natives and
\* no modules of its own, and the base path of the enclosing environment.
NewWithEnclosing(h, enclosing) ==
    [values |-> EmptyMap, enclosing |-> enclosing, natives |-> EmptyMap,
     modules |-> EmptyMap, base_path |-> h[enclosing].base_path]

\* Allocation of a handle for a new environment (Arc::new(Mutex::new(..))).
Alloc(st, env) ==
    [st |-> [st EXCEPT !.heap = Append(@, env)], env |-> Len(st.heap) + 1]

\* Environment::define as it would be if it wrote the binding one scope out,
\* into the enclosing environment, whenever there is one.
DefineInEnclosing(h, id, name, value) ==
    LET target == IF h[id].enclosing = 0 THEN id ELSE h[id].enclosing
    IN  [h EXCEPT ![target].values = Insert(@, name, value)]

\* Environment::define
Define(h, id, name, value) ==
    [h EXCEPT ![id].values = Insert(@, name, value)]

\* Environment::get_from_module: the first module, in the registry's
\* iteration order, whose top-level values hold the name.
GetFromModule(h, order, id, var_name) ==
    LET mods == h[id].modules
        hits == {i \in DOMAIN order :
                    /\ order[i] \in DOMAIN mods
                    /\ var_name \in DOMAIN h[mods[order[i]].environment].values}
    IN  IF hits = {} THEN <<>>
        ELSE LET i == CHOOSE i \in hits : \A j \in hits : i <= j
             IN  <<h[mods[order[i]].environment].values[var_name]>>

\* Environment::get: modules of this environment, then its natives, then its
\* values, then the enclosing environment.  <<>> is "not found".
RECURSIVE Get(_, _, _, _)
Get(h, order, id, name) ==
    LET fromModule == GetFromModule(h, order, id, name)
    IN  IF Len(fromModule) > 0 THEN fromModule
        ELSE IF name \in DOMAIN h[id].natives
             THEN <<NativeFunction(name, h[id].natives[name])>>
        ELSE IF name \in DOMAIN h[id].values THEN <<h[id].values[name]>>
        ELSE IF h[id].enclosing # 0 THEN Get(h, order, h[id].enclosing, name)
        ELSE <<>>

\* Environment::assign: rebinds the name in the nearest environment of the
\* chain that holds it; ok = FALSE is UndefinedVariable.
RECURSIVE Assign(_, _, _, _)
Assign(h, id, name, value) ==
    IF name \in DOMAIN h[id].values
    THEN [ok |-> TRUE, h |-> [h EXCEPT ![id].values[name] = value]]
    ELSE IF h[id].enclosing # 0 THEN Assign(h, h[id].enclosing, name, value)
    ELSE [ok |-> FALSE, h |-> h]

\* The part of Environment::get that is the lexical scope chain: the values
\* of this environment, then those of the enclosing one.
RECURSIVE GetLexical(_, _, _)
GetLexical(h, id, name) ==
    IF name \in DOMAIN h[id].values THEN <<h[id].values[name]>>
    ELSE IF h[id].enclosing # 0 THEN GetLexical(h, h[id].enclosing, name)
    ELSE <<>>

\* self.environment.lock().unwrap().get(name), on the interpreter state.
Lookup(st, name) == Get(st.heap, st.hash_order, st.environment, name)

----------------------------------------------------------------------------
(* Expressions (parser/mod.rs:14-43).  Option<Box<Expr>> is a sequence of  *)
(* no or one expression.                                                   *)

ExprLiteral(tt, lit) == [k |-> "Literal", tt |-> tt, lit |-> lit]
ExprVariable(name) == [k |-> "Variable", name |-> name]
ExprArray(elements) == [k |-> "Array", elements |-> elements]
ExprDictionary(elements) == [k |-> "Dictionary", elements |-> elements]
ExprBinary(left, op, right) ==
    [k |-> "Binary", left |-> left, op |-> op, right |-> right]
ExprLogical(left, op, right) ==
    [k |-> "Logical", left |-> left, op |-> op, right |-> right]
ExprUnary(op, right) == [k |-> "Unary", op |-> op, right |-> right]
ExprGrouping(expr) == [k |-> "Grouping", expr |-> expr]
ExprNil == [k |-> "Nil"]
ExprAssign(name, value) == [k |-> "Assign", name |-> name, value |-> value]
ExprLet(name, init) == [k |-> "Let", name |-> name, init |-> init]
ExprBlock(statements) == [k |-> "Block", statements |-> statements]
ExprFunction(name, params, body) ==
    [k |-> "Function", name |-> name, params |-> params, body |-> body]
ExprAsyncFunction(name, params, body) ==
    [k |-> "AsyncFunction", name |-> name, params |-> params, body |-> body]
ExprClass(name, methods) == [k |-> "Class", name |-> name, methods |-> methods]
ExprCall(owner, callee, arguments) ==
    [k |-> "Call", owner |-> owner, callee |-> callee, arguments |-> arguments]
ExprAwait(expr) == [k |-> "Await", expr |-> expr]
ExprIf(cond, then_branch, else_branch) ==
    [k |-> "If", cond |-> cond, then_branch |-> then_branch,
     else_branch |-> else_branch]
ExprWhile(cond, body) == [k |-> "While", cond |-> cond, body |-> body]
ExprImport(path) == [k |-> "Import", path |-> path]
ExprReturn(value) == [k |-> "Return", value |-> value]
ExprGet(object, name) == [k |-> "Get", object |-> object, name |-> name]
ExprSet(object, name, value) ==
    [k |-> "Set", object |-> object, name |-> name, value |-> value]
ExprTryCatch(try_block, catch_param, catch_block) ==
    [k |-> "TryCatch", try_block |-> try_block, catch_param |-> catch_param,
     catch_block |-> catch_block]

----------------------------------------------------------------------------
(* Value operations (interpreter/mod.rs:743-880).  Number is f64; the      *)
(* model's numbers are small integers, on which f64 arithmetic is exact.   *)

\* str::parse::<f64> on the literal payloads the scripts of the model use
\* (the lexer's normalised "integer.fraction" text).
ParseF64(text) ==
    CASE text = "0.0" -> 0
      [] text = "1.0" -> 1
      [] text = "2.0" -> 2
      [] text = "3.0" -> 3
      [] text = "5.0" -> 5
      [] text = "7.0" -> 7
      [] text = "9.0" -> 9

\* f64 as usize as it would be if the index came out one too high.
AsUsizeOneOff(n) == IF n < 0 THEN 0 ELSE n + 1

\* f64 as usize: saturating, so a negative index becomes 0.
AsUsize(n) == IF n < 0 THEN 0 ELSE n

\* Interpreter::is_truthy
IsTruthy(value) ==
    CASE value.t = "Nil" -> FALSE
      [] value.t = "Boolean" -> value.b
      [] value.t = "String" -> TRUE
      [] value.t = "Number" -> value.n # 0
      [] OTHER -> TRUE

\* Interpreter::is_equal
IsEqual(left, right) ==
    CASE left.t = "Number" /\ right.t = "Number" -> left.n = right.n
      [] left.t = "String" /\ right.t = "String" -> left.s = right.s
      [] left.t = "Boolean" /\ right.t = "Boolean" -> left.b = right.b
      [] left.t = "Nil" /\ right.t = "Nil" -> TRUE
      [] OTHER -> FALSE

\* History: `left == right` or `left != right` yielded res.
EqualEvent(st, op, left, right, res) ==
    [st EXCEPT !.events =
        Append(@, [ev |-> "equal", op |-> op, left |-> left, right |-> right,
                   res |-> res])]

\* The operator dispatch of Expr::Binary.  `+` is modelled on two numbers
\* and `%` on a non-negative dividend; `/` (f64 division) and string
\* concatenation have no counterpart here and no script of the model uses
\* them.
BinaryOp(st, op, left, right) ==
    LET nums == left.t = "Number" /\ right.t = "Number"
    IN  CASE op = "Plus" /\ nums -> Ok(st, Number(left.n + right.n))
          [] op = "Minus" ->
                IF nums THEN Ok(st, Number(left.n - right.n))
                ELSE Err(st, RuntimeError("OperandsMustBeNumber"))
          [] op = "Star" ->
                IF nums THEN Ok(st, Number(left.n * right.n))
                ELSE Err(st, RuntimeError("OperandsMustBeNumbersOrStrings"))
          [] op = "Modulo" ->
                IF ~nums THEN Err(st, RuntimeError("OperandsMustBeNumber"))
                ELSE IF right.n = 0 THEN Err(st, RuntimeError("DivisionByZero"))
                ELSE LET d == IF right.n < 0 THEN -right.n ELSE right.n
                     IN  IF left.n >= 0 THEN Ok(st, Number(left.n % d))
                         ELSE Ok(st, Number(-((-left.n) % d)))
          [] op = "Greater" ->
                IF nums THEN Ok(st, Boolean(left.n > right.n))
                ELSE Err(st, RuntimeError("OperandsMustBeNumber"))
          [] op = "GreaterEqual" ->
                IF nums THEN Ok(st, Boolean(left.n >= right.n))
                ELSE Err(st, RuntimeError("OperandsMustBeNumber"))
          [] op = "Less" ->
                IF nums THEN Ok(st, Boolean(left.n < right.n))
                ELSE Err(st, RuntimeError("OperandsMustBeNumber"))
          [] op = "LessEqual" ->
                IF nums THEN Ok(st, Boolean(left.n <= right.n))
                ELSE Err(st, RuntimeError("OperandsMustBeNumber"))
          [] op = "EqualEqual" ->
                Ok(EqualEvent(st, op, left, right, IsEqual(left, right)),
                   Boolean(IsEqual(left, right)))
          [] op = "BandEqual" ->
                Ok(EqualEvent(st, op, left, right, ~IsEqual(left, right)),
                   Boolean(~IsEqual(left, right)))
          [] op \notin {"Plus", "Minus", "Star", "Modulo", "Slash", "Greater",
                        "GreaterEqual", "Less", "LessEqual", "EqualEqual",
                        "BandEqual"} ->
                Err(st, RuntimeError("InvalidBinaryOperator"))

\* The operator dispatch of Expr::Unary (negate, not).
UnaryOp(st, op, right) ==
    CASE op = "Minus" ->
            IF right.t = "Number" THEN Ok(st, Number(-right.n))
            ELSE Err(st, RuntimeError("OperandsMustBeNumber"))
      [] op = "Bang" -> Ok(st, Boolean(~IsTruthy(right)))
      [] OTHER -> Err(st, RuntimeError("InvalidUnaryOperator"))

----------------------------------------------------------------------------
(* The interpreter state threaded through the evaluator:                   *)
(*   [environment, heap, promises, stdout, hash_order,                     *)
(*    events, call_stack, evals]                                           *)
(* events, call_stack and evals are history: they record what the          *)
(* evaluator did and are read by no step of it.                            *)

Log(st, event) == [st EXCEPT !.events = Append(@, event)]

\* History: an evaluation starts; every activation that has already
\* evaluated a `return` counts it.
Touch(st) ==
    [st EXCEPT
        !.evals = @ + 1,
        !.call_stack =
            [i \in DOMAIN @ |->
                IF @[i].returned THEN [@[i] EXCEPT !.after = @ + 1] ELSE @[i]]]

\* History: a function activation starts / a `return` raises in the
\* innermost activation / the activation ends with result r.
Enter(st) ==
    [st EXCEPT !.call_stack =
        Append(@, [returned |-> FALSE, retv |-> <<>>, after |-> 0])]

MarkReturn(st, value) ==
    LET n == Len(st.call_stack)
    IN  IF n = 0 \/ st.call_stack[n].returned THEN st
        ELSE [st EXCEPT !.call_stack[n] =
                 [returned |-> TRUE, retv |-> <<value>>, after |-> 0]]

Leave(r, what, name) ==
    LET cs == r.st.call_stack
        top == cs[Len(cs)]
        st1 == [r.st EXCEPT !.call_stack = SubSeq(cs, 1, Len(cs) - 1)]
    IN  [r EXCEPT !.st =
            Log(st1, [ev |-> "call", what |-> what, name |-> name,
                      returned |-> top.returned, retv |-> top.retv,
                      after |-> top.after, res |-> r.k,
                      err |-> IF r.k = "Err" THEN r.e.kind ELSE "none",
                      out |-> IF r.k = "Ok" THEN <<r.v>> ELSE <<>>])]

RECURSIVE Evaluate(_, _)

\* The `for element in elements { values.push(self.evaluate(element)?) }`
\* loops of Expr::Array and Expr::Call: left to right, stopping at the
\* first error.  The result's v is the Vec<Value>.
RECURSIVE EvalList(_, _, _, _)
EvalList(exprs, i, values, st) ==
    IF i > Len(exprs) THEN [st |-> st, k |-> "Ok", v |-> values]
    ELSE LET r == Evaluate(exprs[i], st)
         IN  IF r.k # "Ok" THEN r
             ELSE EvalList(exprs, i + 1, Append(values, r.v), r.st)

\* The statement loop of execute_block: "Done" when every statement
\* evaluated to Ok, else the first result that is not Ok.
RECURSIVE BlockLoop(_, _, _, _)
BlockLoop(statements, i, result, st) ==
    IF i > Len(statements) THEN [st |-> st, k |-> "Done", v |-> result]
    ELSE LET r == Evaluate(statements[i], st)
         IN  IF r.k # "Ok" THEN r
             ELSE BlockLoop(statements, i + 1, r.v, r.st)

BlockEvent(st, previous, env, exit) ==
    Log(st, [ev |-> "block", previous |-> previous, env |-> env,
             after |-> st.environment, exit |-> exit])

\* Interpreter::execute_block as it would be if the Return arm of its loop
\* passed the error on like any other.
ExecuteBlockRethrow(statements, env, st) ==
    LET previous == st.environment
        r == BlockLoop(statements, 1, Nil, [st EXCEPT !.environment = env])
    IN  CASE r.k = "Done" ->
                Ok(BlockEvent([r.st EXCEPT !.environment = previous],
                              previous, env, "normal"), r.v)
          [] r.k = "Err" ->
                Err(BlockEvent(r.st, previous, env, "error"), r.e)
          [] r.k = "Panic" -> r

\* Interpreter::execute_block.  The environment is restored on the path
\* that falls out of the loop only; the two `return`s inside the loop
\* leave self.environment as it is.
ExecuteBlock(statements, env, st) ==
    LET previous == st.environment
        r == BlockLoop(statements, 1, Nil, [st EXCEPT !.environment = env])
    IN  CASE r.k = "Done" ->
                Ok(BlockEvent([r.st EXCEPT !.environment = previous],
                              previous, env, "normal"), r.v)
          [] r.k = "Err" /\ r.e.kind = "Return" ->
                Ok(BlockEvent(r.st, previous, env, "return"), r.e.v)
          [] r.k = "Err" /\ r.e.kind # "Return" ->
                Err(BlockEvent(r.st, previous, env, "error"), r.e)
          [] r.k = "Panic" -> r

----------------------------------------------------------------------------
(* Promises (value.rs:28-38) and futures.  A future is the state of an     *)
(* async block: "created" until it is polled to completion, then           *)
(* "completed".                                                            *)

\* Value::create_promise: a new handle whose state is Pending(future).
CreatePromise(st, future) ==
    Ok([st EXCEPT !.promises =
            Append(@, [state |-> "Pending", future |-> future])],
       Promise(Len(st.promises) + 1))

\* Interpreter::execute_async_call, up to `async move`: the future captures
\* the callee, the arguments and the handle of the environment current at
\* the call; nothing of it runs before it is polled.
ExecuteAsyncCall(owner, callee, arguments, st) ==
    [kind |-> "async_call", callee |-> callee, arguments |-> arguments,
     environment |-> st.environment, poll |-> "created"]

\* Value::get_type
GetType(value) ==
    CASE value.t = "Number" -> "number"
      [] value.t = "String" -> "string"
      [] value.t = "Boolean" -> "boolean"
      [] value.t = "Nil" -> "nil"
      [] value.t = "Function" -> "function"
      [] value.t = "AsyncFunction" -> "async function"
      [] value.t = "NativeFunction" -> "native function"
      [] value.t = "Class" -> "class"
      [] value.t = "Instance" -> "instance"
      [] value.t = "Array" -> "array"
      [] value.t = "Dictionary" -> "dictionary"
      [] value.t = "Promise" -> "promise"

\* NativeFunction::call (native.rs:25-33) and the bodies registered in
\* native_functions.rs for print, typeOf and delay.
NativeCall(function, arguments, st) ==
    IF Len(arguments) # function.arity
    THEN Err(st, RuntimeError("InvalidParametsCount"))
    ELSE CASE function.name = "print" ->
                Ok([st EXCEPT !.stdout = Append(@, arguments[1])], Nil)
           [] function.name = "typeOf" ->
                Ok(st, String(GetType(arguments[1])))
           [] function.name = "delay" ->
                IF arguments[1].t = "Number"
                THEN CreatePromise(st, [kind |-> "delay", poll |-> "created"])
                ELSE Err(st, RuntimeError("InvalidArgumentType"))

\* `for (param, arg) in params.iter().zip(arguments) { env.define(param, arg) }`
RECURSIVE DefineParams(_, _, _, _, _)
DefineParams(h, id, params, arguments, i) ==
    IF i > Len(params) \/ i > Len(arguments) THEN h
    ELSE DefineParams(Define(h, id, params[i], arguments[i]), id, params,
                      arguments, i + 1)

\* `for (name, value) in methods { environment.define(name, value) }`
RECURSIVE DefineMethods(_, _, _, _)
DefineMethods(h, id, methods, names) ==
    IF names = {} THEN h
    ELSE LET name == CHOOSE n \in names : TRUE
         IN  DefineMethods(Define(h, id, name, methods[name]), id, methods,
                           names \ {name})

\* History: a call of a function of `params` parameters with `arguments`
\* arguments, begun in state st, ended with r.
ArityEvent(r, st, params, arguments) ==
    [r EXCEPT !.st =
        Log(@, [ev |-> "arity", params |-> params, arguments |-> arguments,
                res |-> r.k,
                error |-> IF r.k = "Err" THEN r.e ELSE [kind |-> "none"],
                heap_same |-> r.st.heap = st.heap,
                body_evals |-> r.st.evals - st.evals,
                stdout_same |-> r.st.stdout = st.stdout])]

\* The Function and AsyncFunction arms of execute_call: arity check, a
\* child of the current environment with the parameters, then the body.
CallFunction(callee, arguments, st) ==
    IF Len(arguments) # Len(callee.params)
    THEN ArityEvent(Err(st, ExpextedArgument(Len(arguments),
                                             Len(callee.params))),
                    st, Len(callee.params), Len(arguments))
    ELSE LET a == Alloc(st, NewWithEnclosing(st.heap, st.environment))
             st1 == [a.st EXCEPT !.heap =
                        DefineParams(@, a.env, callee.params, arguments, 1)]
         IN  Leave(IF callee.body.k = "Block"
                   THEN ExecuteBlock(callee.body.statements, a.env, Enter(st1))
                   ELSE Evaluate(callee.body, Enter(st1)),
                   "function", callee.name)

\* The Class arm of execute_call.
CallClass(callee, arguments, st) ==
    LET a == Alloc(st, NewWithEnclosing(st.heap, st.environment))
        instance == Instance(callee.name, a.env)
    IN  IF "_construct" \in DOMAIN callee.methods
        THEN LET method == callee.methods["_construct"]
             IN  IF method.t # "Function"
                 THEN Err(a.st, RuntimeError("InvalidClassMethod"))
                 ELSE LET h1 == DefineParams(a.st.heap, a.env, method.params,
                                             arguments, 1)
                          h2 == Define(h1, a.env, "this", instance)
                          r == Leave(ExecuteBlock(<<method.body>>, a.env,
                                        Enter([a.st EXCEPT !.heap = h2])),
                                     "constructor", callee.name)
                      IN  IF r.k # "Ok" THEN r
                          ELSE Ok([r.st EXCEPT !.heap =
                                      DefineMethods(@, a.env, callee.methods,
                                                    DOMAIN callee.methods)],
                                  instance)
        ELSE Ok(a.st, instance)

\* Interpreter::execute_call
ExecuteCall(owner, callee, arguments, st) ==
    CASE callee.t \in {"Function", "AsyncFunction"} ->
            CallFunction(callee, arguments, st)
      [] callee.t = "NativeFunction" -> NativeCall(callee, arguments, st)
      [] callee.t = "Class" -> CallClass(callee, arguments, st)
      [] OTHER -> Err(st, RuntimeError("UndefinedFunction"))

\* The async block of execute_async_call, run when the future is polled:
\* the parameters are defined in the captured environment itself, and the
\* body runs in an interpreter of its own (new_with_environment) whose
\* block environment is that same captured environment.
RunAsyncCall(future, st) ==
    LET callee == future.callee
        env == future.environment
    IN  IF callee.t # "AsyncFunction"
        THEN Err(st, RuntimeError("UndefinedFunction"))
        ELSE IF Len(future.arguments) # Len(callee.params)
        THEN Err(st, ExpextedArgument(Len(future.arguments),
                                      Len(callee.params)))
        ELSE LET st1 == [st EXCEPT
                            !.heap = DefineParams(@, env, callee.params,
                                                  future.arguments, 1),
                            !.environment = env]
                 r == Leave(IF callee.body.k = "Block"
                            THEN ExecuteBlock(callee.body.statements, env,
                                              Enter(st1))
                            ELSE Evaluate(callee.body, Enter(st1)),
                            "async", callee.name)
             IN  [r EXCEPT !.st.environment = st.environment]

\* A future polled to completion by Runtime::block_on.  Of the tokio
\* runtimes only the value block_on returns is modelled: worker threads,
\* timers and the shutdown of a runtime are not.
RunFuture(future, st) ==
    CASE future.kind = "async_call" -> RunAsyncCall(future, st)
      [] future.kind = "delay" -> Ok(st, Nil)

----------------------------------------------------------------------------
(* The file system the scripts import from, and the module loader          *)
(* (enviroment.rs:421-487).                                                *)

ProjDir == Path(TRUE, <<Comp("proj", "")>>)

\* Path::new(import_path) on the import strings the scripts use.
ParsePath(text) ==
    CASE text = "m.al" -> Path(FALSE, <<Comp("m", "al")>>)
      [] text = "bad.al" -> Path(FALSE, <<Comp("bad", "al")>>)
      [] text = "none.al" -> Path(FALSE, <<Comp("none", "al")>>)
      [] text = "/proj/m.al" -> Path(TRUE, <<Comp("proj", ""), Comp("m", "al")>>)
      [] text = "k.al" -> Path(FALSE, <<Comp("k", "al")>>)
      [] text = "lex.al" -> Path(FALSE, <<Comp("lex", "al")>>)
      [] text = "lib/n.al" -> Path(FALSE, <<Comp("lib", ""), Comp("n", "al")>>)
      [] text = "lib/m.al" -> Path(FALSE, <<Comp("lib", ""), Comp("m", "al")>>)

\* The module files on disk: the expressions their text parses to (the
\* tokenizer skips a character it does not know) and the number of errors
\* the tokenizer records on the text.
\*   /proj/m.al:      var m = 1.0  print("m body")
\*   /proj/bad.al:    print("bad body")  nosuch
\*   /proj/lex.al:    var z = 1 @ print("lex body")
\*   /proj/lib/n.al:  import "k.al"  var n = 2
\*   /proj/lib/k.al:  var k = 3
\*   /proj/lib/m.al:  var q = 5  print("lib m body")
\* The working directory of the process holds none of them under a
\* relative name.
Files ==
    (Join(ProjDir, ParsePath("m.al")) :>
        [errors |-> 0,
         body |-> <<ExprLet("m", ExprLiteral("Number", "1.0")),
                    ExprCall(<<>>, ExprVariable("print"),
                             <<ExprLiteral("STRING", "m body")>>)>>])
    @@
    (Join(ProjDir, ParsePath("bad.al")) :>
        [errors |-> 0,
         body |-> <<ExprCall(<<>>, ExprVariable("print"),
                             <<ExprLiteral("STRING", "bad body")>>),
                    ExprVariable("nosuch")>>])
    @@
    (Join(ProjDir, ParsePath("lex.al")) :>
        [errors |-> 1,
         body |-> <<ExprLet("z", ExprLiteral("Number", "1.0")),
                    ExprCall(<<>>, ExprVariable("print"),
                             <<ExprLiteral("STRING", "lex body")>>)>>])
    @@
    (Join(ProjDir, ParsePath("lib/n.al")) :>
        [errors |-> 0,
         body |-> <<ExprImport(ExprLiteral("STRING", "k.al")),
                    ExprLet("n", ExprLiteral("Number", "2.0"))>>])
    @@
    (Join(Join(ProjDir, Path(FALSE, <<Comp("lib", "")>>)), ParsePath("k.al")) :>
        [errors |-> 0,
         body |-> <<ExprLet("k", ExprLiteral("Number", "3.0"))>>])
    @@
    (Join(ProjDir, ParsePath("lib/m.al")) :>
        [errors |-> 0,
         body |-> <<ExprLet("q", ExprLiteral("Number", "5.0")),
                    ExprCall(<<>>, ExprVariable("print"),
                             <<ExprLiteral("STRING", "lib m body")>>)>>])

\* Environment::resolve_module_path: an absolute path as it is, a relative
\* one joined to the base path and required to exist.
ResolveModulePath(base_path, import_path) ==
    LET path == ParsePath(import_path)
        resolved == Join(base_path, path)
    IN  IF path.abs THEN [ok |-> TRUE, path |-> path]
        ELSE [ok |-> resolved \in DOMAIN Files, path |-> resolved]

\* Interpreter::interpret: every expression in order, the first error
\* returned at once.
RECURSIVE Interpret(_, _, _, _)
Interpret(expressions, i, last, st) ==
    IF i > Len(expressions) THEN Ok(st, last)
    ELSE LET r == Evaluate(expressions[i], st)
         IN  IF r.k # "Ok" THEN r
             ELSE Interpret(expressions, i + 1, r.v, r.st)

\* History: an import of `file` into the current environment ended with
\* res; evaluated tells whether the module's body was run, same whether
\* every environment and the output are as they were in `before`.
ImportEvent(st, before, file, evaluated, res) ==
    Log(st, [ev |-> "import", file |-> file, into |-> st.environment,
             evaluated |-> evaluated, res |-> res,
             same |-> st.heap = before.heap /\ st.stdout = before.stdout])

\* Environment::import_module as it would be without the
\* `self.modules.contains_key(module_name)` early return.
ImportModuleAgain(path, st) ==
    LET self == st.environment
        full == ResolveModulePath(st.heap[self].base_path, path)
        stem == FileStem(full.path)
    IN  IF ~full.ok
        THEN Err(ImportEvent(st, st, full.path, FALSE, "Err"),
                 ModuleError("Could not find module"))
        ELSE IF Len(stem) = 0
        THEN Err(ImportEvent(st, st, full.path, FALSE, "Err"),
                 ModuleError("Invalid module path"))
        ELSE IF full.path \notin DOMAIN Files
        THEN Err(ImportEvent(st, st, full.path, FALSE, "Err"),
                 ModuleError("Could not read module file"))
        ELSE LET a == Alloc(st, NewEnvironment(EmptyPath))
                 r == Interpret(Files[full.path].body, 1, Nil,
                                [a.st EXCEPT !.environment = a.env])
                 back == [r.st EXCEPT !.environment = self]
             IN  CASE r.k = "Ok" ->
                        Ok(ImportEvent(
                             [back EXCEPT !.heap[self].modules =
                                 Insert(@, stem[1],
                                        [name |-> stem[1],
                                         environment |-> r.st.environment,
                                         path |-> path])],
                             st, full.path, TRUE, "Ok"), Nil)
                   [] r.k = "Err" ->
                        Err(ImportEvent(back, st, full.path, TRUE, "Err"), r.e)
                   [] r.k = "Panic" -> r

\* Environment::import_module, called on the current environment.
ImportModule(path, st) ==
    LET self == st.environment
        full == ResolveModulePath(st.heap[self].base_path, path)
        stem == FileStem(full.path)
    IN  IF ~full.ok
        THEN Err(ImportEvent(st, st, full.path, FALSE, "Err"),
                 ModuleError("Could not find module"))
        ELSE IF Len(stem) = 0
        THEN Err(ImportEvent(st, st, full.path, FALSE, "Err"),
                 ModuleError("Invalid module path"))
        ELSE IF stem[1] \in DOMAIN st.heap[self].modules
        THEN Ok(ImportEvent(st, st, full.path, FALSE, "Ok"), Nil)
        ELSE IF full.path \notin DOMAIN Files
        THEN Err(ImportEvent(st, st, full.path, FALSE, "Err"),
                 ModuleError("Could not read module file"))
        ELSE LET a == Alloc(st, NewEnvironment(EmptyPath))
                 r == Interpret(Files[full.path].body, 1, Nil,
                                [a.st EXCEPT !.environment = a.env])
                 back == [r.st EXCEPT !.environment = self]
             IN  CASE r.k = "Ok" ->
                        Ok(ImportEvent(
                             [back EXCEPT !.heap[self].modules =
                                 Insert(@, stem[1],
                                        [name |-> stem[1],
                                         environment |-> r.st.environment,
                                         path |-> path])],
                             st, full.path, TRUE, "Ok"), Nil)
                   [] r.k = "Err" ->
                        Err(ImportEvent(back, st, full.path, TRUE, "Err"), r.e)
                   [] r.k = "Panic" -> r

----------------------------------------------------------------------------
(* try / catch (interpreter/mod.rs:711-741).                               *)

\* InterpreterError's to_string (error/mod.rs:137-221), without the
\* "[line n] " prefix and, but for ExpextedArgument, the arguments of the
\* message.
ToStringError(e) ==
    CASE e.kind = "Return" -> "Return unwind the call stack"
      [] e.kind = "UndefinedVariable" -> "Error: Undefined variable"
      [] e.kind = "DivisionByZero" -> "Error: Division by zero."
      [] e.kind = "OperandsMustBeNumber" -> "Error: Operand must be a number."
      [] e.kind = "ExpextedArgument" ->
            "Error: Expected " \o ToString(e.exptected)
                \o " arguments but got " \o ToString(e.got)
      [] e.kind = "InvalidCall" -> "Error: Invalid call."
      [] e.kind = "InvalidGet" -> "Error: Invalid get."
      [] e.kind = "InvalidSet" -> "Error: Invalid set."
      [] e.kind = "RuntimeError" -> "Error: message"
      [] OTHER -> "Error"

\* History: the catch body of a TryCatch is about to be evaluated in the
\* current environment; bound is what the catch parameter resolves to.
CatchEvent(st, param, error) ==
    Log(st, [ev |-> "catch", env |-> st.environment,
             enclosing |-> st.heap[st.environment].enclosing,
             param |-> param, error |-> error,
             bound |-> Get(st.heap, st.hash_order, st.environment, param)])

\* History: a TryCatch entered in environment `previous`, when the history
\* held `first` events and `param` resolved to `before`, ended with r;
\* caught says whether the try body raised an error.
TryEvent(r, previous, first, param, before, caught) ==
    [r EXCEPT !.st =
        Log(@, [ev |-> "try", previous |-> previous, first |-> first,
                caught |-> caught, res |-> r.k,
                out |-> IF r.k = "Ok" THEN <<r.v>> ELSE <<>>,
                after |-> @.environment,
                param_same |-> Get(@.heap, @.hash_order, @.environment, param)
                               = before])]

\* Interpreter::execute_try_catch as it would be without the
\* `self.environment = previous_env` that follows the catch body.
ExecuteTryCatchNoRestore(e, st) ==
    LET previous_env == st.environment
        first == Len(st.events)
        before == Get(st.heap, st.hash_order, previous_env, e.catch_param)
        result == Evaluate(e.try_block, st)
    IN  CASE result.k = "Ok" ->
                TryEvent(Ok([result.st EXCEPT !.environment = previous_env],
                            result.v),
                         previous_env, first, e.catch_param, before, FALSE)
          [] result.k = "Err" ->
                LET a == Alloc(result.st,
                               NewWithEnclosing(result.st.heap, previous_env))
                    st1 == [a.st EXCEPT
                               !.heap = Define(@, a.env, e.catch_param,
                                               String(ToStringError(result.e))),
                               !.environment = a.env]
                    catch_result == Evaluate(e.catch_block,
                                        CatchEvent(st1, e.catch_param, result.e))
                IN  IF catch_result.k = "Panic" THEN catch_result
                    ELSE TryEvent(catch_result,
                                  previous_env, first, e.catch_param, before,
                                  TRUE)
          [] result.k = "Panic" -> result

\* Interpreter::execute_try_catch
ExecuteTryCatch(e, st) ==
    LET previous_env == st.environment
        first == Len(st.events)
        before == Get(st.heap, st.hash_order, previous_env, e.catch_param)
        result == Evaluate(e.try_block, st)
    IN  CASE result.k = "Ok" ->
                TryEvent(Ok([result.st EXCEPT !.environment = previous_env],
                            result.v),
                         previous_env, first, e.catch_param, before, FALSE)
          [] result.k = "Err" ->
                LET a == Alloc(result.st,
                               NewWithEnclosing(result.st.heap, previous_env))
                    st1 == [a.st EXCEPT
                               !.heap = Define(@, a.env, e.catch_param,
                                               String(ToStringError(result.e))),
                               !.environment = a.env]
                    catch_result == Evaluate(e.catch_block,
                                        CatchEvent(st1, e.catch_param, result.e))
                IN  IF catch_result.k = "Panic" THEN catch_result
                    ELSE TryEvent([catch_result EXCEPT
                                      !.st.environment = previous_env],
                                  previous_env, first, e.catch_param, before,
                                  TRUE)
          [] result.k = "Panic" -> result

----------------------------------------------------------------------------
(* The arms of Interpreter::evaluate (interpreter/mod.rs:82-518).          *)

EvalLiteral(e, st) ==
    CASE e.tt = "Number" -> Ok(st, Number(ParseF64(e.lit)))
      [] e.tt = "STRING" -> Ok(st, String(e.lit))
      [] e.tt = "True" -> Ok(st, Boolean(TRUE))
      [] e.tt = "False" -> Ok(st, Boolean(FALSE))
      [] e.tt = "Nil" -> Ok(st, Nil)
      [] OTHER -> Err(st, RuntimeError("InvalidLiteral"))

\* History: Expr::Variable looked `name` up and found `value`; lexical is
\* what the scope chain alone holds for the name.
LookupEvent(st, name, value) ==
    Log(st, [ev |-> "lookup", name |-> name, res |-> value,
             lexical |-> GetLexical(st.heap, st.environment, name),
             native |-> name \in DOMAIN Natives,
             module |-> \E id \in DOMAIN st.heap :
                           Len(GetFromModule(st.heap, st.hash_order, id, name))
                             > 0])

EvalVariable(e, st) ==
    LET value == Lookup(st, e.name)
        st1 == LookupEvent(st, e.name, value)
    IN  IF Len(value) > 0 THEN Ok(st1, value[1])
        ELSE Err(st1, UndefinedVariable(e.name))

EvalArray(e, st) ==
    LET r == EvalList(e.elements, 1, <<>>, st)
    IN  IF r.k # "Ok" THEN r ELSE Ok(r.st, Array(r.v))

\* History: a dictionary literal evaluated `key` as one of its keys.
KeyEvent(st, key) == Log(st, [ev |-> "key", key |-> key])

\* The loop of Expr::Dictionary as it would be if a key of any type were
\* accepted and stored under the name of its type.
RECURSIVE DictLoopAnyKey(_, _, _, _)
DictLoopAnyKey(elements, i, values, st) ==
    IF i > Len(elements) THEN Ok(st, Dictionary(values))
    ELSE LET key == Evaluate(elements[i][1], st)
         IN  IF key.k # "Ok" THEN key
             ELSE LET value == Evaluate(elements[i][2], key.st)
                  IN  IF value.k # "Ok" THEN value
                      ELSE DictLoopAnyKey(elements, i + 1,
                               Insert(values,
                                      IF key.v.t = "String" THEN key.v.s
                                      ELSE GetType(key.v), value.v),
                               KeyEvent(value.st, key.v))

\* The loop of Expr::Dictionary over the (key, value) pairs.
RECURSIVE DictLoop(_, _, _, _)
DictLoop(elements, i, values, st) ==
    IF i > Len(elements) THEN Ok(st, Dictionary(values))
    ELSE LET key == Evaluate(elements[i][1], st)
         IN  IF key.k # "Ok" THEN key
             ELSE LET value == Evaluate(elements[i][2], key.st)
                  IN  IF value.k # "Ok" THEN value
                      ELSE IF key.v.t = "String"
                      THEN DictLoop(elements, i + 1,
                                    Insert(values, key.v.s, value.v),
                                    KeyEvent(value.st, key.v))
                      ELSE Err(KeyEvent(value.st, key.v),
                               RuntimeError("InvalidDictionaryKey"))

\* History: a dictionary literal, whose evaluation began when the history
\* held `first` events, ended with r.
DictEvent(r, first) ==
    [r EXCEPT !.st =
        Log(@, [ev |-> "dict", first |-> first, res |-> r.k,
                out |-> IF r.k = "Ok" THEN <<r.v>> ELSE <<>>])]

EvalDictionary(e, st) ==
    LET r == DictLoop(e.elements, 1, EmptyMap, st)
    IN  IF r.k = "Panic" THEN r ELSE DictEvent(r, Len(st.events))

EvalBinary(e, st) ==
    LET left == Evaluate(e.left, st)
    IN  IF left.k # "Ok" THEN left
        ELSE LET right == Evaluate(e.right, left.st)
             IN  IF right.k # "Ok" THEN right
                 ELSE BinaryOp(right.st, e.op, left.v, right.v)

EvalUnary(e, st) ==
    LET right == Evaluate(e.right, st)
    IN  IF right.k # "Ok" THEN right ELSE UnaryOp(right.st, e.op, right.v)

EvalAssign(e, st) ==
    LET value == Evaluate(e.value, st)
    IN  IF value.k # "Ok" THEN value
        ELSE LET a == Assign(value.st.heap, value.st.environment, e.name,
                             value.v)
             IN  IF a.ok THEN Ok([value.st EXCEPT !.heap = a.h], value.v)
                 ELSE Err(value.st, UndefinedVariable(e.name))

\* History: the names whose binding in some environment differs between
\* heap h and the later heap g (bound anew, or to another value).
Rebound(h, g) ==
    {n \in UNION {DOMAIN g[id].values : id \in DOMAIN g} :
        \E id \in DOMAIN g :
            /\ n \in DOMAIN g[id].values
            /\ \/ id \notin DOMAIN h
               \/ n \notin DOMAIN h[id].values
               \/ h[id].values[n] # g[id].values[n]}

\* History: a Set on the variable `object`, holding `receiver`, with the
\* evaluated name part `key` and value `value`, dispatched in state `before`
\* and ended with r.  same: no environment was changed by the dispatch;
\* after: what the variable `object` resolves to afterwards.
SetEvent(r, object, receiver, key, value, before) ==
    [r EXCEPT !.st =
        Log(@, [ev |-> "set", object |-> object, receiver |-> receiver,
                key |-> key, value |-> value, cur |-> before.environment,
                res |-> r.k, same |-> @.heap = before.heap,
                err |-> IF r.k = "Err" THEN r.e.kind ELSE "none",
                out |-> IF r.k = "Ok" THEN <<r.v>> ELSE <<>>,
                others |-> Rebound(before.heap, @.heap) \subseteq {object},
                after |-> Get(@.heap, @.hash_order, before.environment,
                              object)])]

\* History: a Get on `receiver` with the evaluated name part `key`,
\* dispatched in state `before`, ended with r.
GetEvent(r, receiver, key, before) ==
    [r EXCEPT !.st =
        Log(@, [ev |-> "get", receiver |-> receiver, key |-> key,
                cur |-> before.environment, res |-> r.k,
                err |-> IF r.k = "Err" THEN r.e.kind ELSE "none",
                out |-> IF r.k = "Ok" THEN <<r.v>> ELSE <<>>,
                same |-> @.heap = before.heap])]

\* Expr::Set: the receiver is looked up by name, then the value and the
\* name part are evaluated.  An instance receiver assigns the field name in
\* the current environment chain; an array or dictionary receiver updates
\* its own copy of the aggregate and assigns it back to the receiver's name.
EvalSet(e, st) ==
    LET object == Lookup(st, e.object)
    IN  IF Len(object) = 0 THEN Err(st, UndefinedVariable(e.object))
        ELSE
        LET value == Evaluate(e.value, st)
        IN  IF value.k # "Ok" THEN value
            ELSE
            LET name == Evaluate(e.name, value.st)
                s == name.st
                back(agg) == LET a == Assign(s.heap, s.environment, e.object, agg)
                             IN  IF a.ok THEN Ok([s EXCEPT !.heap = a.h], value.v)
                                 ELSE Err(s, UndefinedVariable(e.object))
            IN  IF name.k # "Ok" THEN name
                ELSE
                SetEvent(
                CASE object[1].t = "Instance" /\ name.v.t = "String" ->
                        LET a == Assign(s.heap, s.environment, name.v.s, value.v)
                        IN  IF a.ok THEN Ok([s EXCEPT !.heap = a.h], value.v)
                            ELSE Err(s, UndefinedVariable(name.v.s))
                  [] object[1].t = "Array" /\ name.v.t = "Number" ->
                        IF name.v.n < Len(object[1].a)
                        THEN IF AsUsize(name.v.n) >= Len(object[1].a)
                             THEN Panicked(s)
                             ELSE back(Array([object[1].a EXCEPT
                                        ![AsUsize(name.v.n) + 1] = value.v]))
                        ELSE Err(s, RuntimeError("InvalidSet"))
                  [] object[1].t = "Dictionary" /\ name.v.t = "String" ->
                        back(Dictionary(Insert(object[1].d, name.v.s, value.v)))
                  [] OTHER -> Err(s, RuntimeError("InvalidSet")),
                e.object, object[1], name.v, value.v, s)

\* Expr::Get: an instance receiver looks the field name up in the current
\* environment chain.
EvalGet(e, st) ==
    LET object == Evaluate(e.object, st)
    IN  IF object.k # "Ok" THEN object
        ELSE
        LET name == Evaluate(e.name, object.st)
            s == name.st
        IN  IF name.k # "Ok" THEN name
            ELSE
            GetEvent(
            CASE object.v.t = "Instance" /\ name.v.t = "String" ->
                    LET value == Lookup(s, name.v.s)
                    IN  IF Len(value) > 0 THEN Ok(s, value[1])
                        ELSE Err(s, RuntimeError("InvalidGet"))
              [] object.v.t = "Array" /\ name.v.t = "Number" ->
                    IF name.v.n < Len(object.v.a)
                    THEN IF AsUsize(name.v.n) >= Len(object.v.a)
                         THEN Panicked(s)
                         ELSE Ok(s, object.v.a[AsUsize(name.v.n) + 1])
                    ELSE Err(s, RuntimeError("InvalidGet"))
              [] object.v.t = "Dictionary" /\ name.v.t = "String" ->
                    IF name.v.s \in DOMAIN object.v.d
                    THEN Ok(s, object.v.d[name.v.s])
                    ELSE Err(s, RuntimeError("InvalidGet"))
              [] OTHER -> Err(s, RuntimeError("InvalidGet")),
            object.v, name.v, s)

\* History: `var name` ran in the current environment.  others: every
\* other environment is as it was in `before`; outer: looked up from the
\* enclosing environment, the name resolves as it did in `before`.
LetEvent(st, before, name) ==
    LET enclosing == st.heap[st.environment].enclosing
    IN  Log(st, [ev |-> "let", name |-> name, env |-> st.environment,
                 enclosing |-> enclosing,
                 others |-> \A id \in DOMAIN before :
                              id # st.environment => st.heap[id] = before[id],
                 outer |-> enclosing = 0
                           \/ Get(st.heap, st.hash_order, enclosing, name)
                              = Get(before, st.hash_order, enclosing, name)])

EvalLet(e, st) ==
    LET value == Evaluate(e.init, st)
    IN  IF value.k # "Ok" THEN value
        ELSE Ok(LetEvent([value.st EXCEPT !.heap =
                             Define(@, value.st.environment, e.name, value.v)],
                         value.st.heap, e.name),
                value.v)

EvalBlock(e, st) ==
    LET a == Alloc(st, NewWithEnclosing(st.heap, st.environment))
    IN  ExecuteBlock(e.statements, a.env, a.st)

EvalFunction(e, st) ==
    LET function == Function(e.name, e.params, e.body)
    IN  Ok([st EXCEPT !.heap = Define(@, st.environment, e.name, function)],
           function)

EvalAsyncFunction(e, st) ==
    LET function == AsyncFunction(e.name, e.params, e.body)
    IN  Ok([st EXCEPT !.heap = Define(@, st.environment, e.name, function)],
           function)


\* History: the Call that began as evaluation number `call` is about to
\* evaluate a part of itself: "callee", "receiver", or "argument" number nth.
PartEvent(st, call, part, nth) ==
    Log(st, [ev |-> "part", call |-> call, part |-> part, nth |-> nth])

\* `for arg in arguments { evaluated_args.push(self.evaluate(arg)?) }` of
\* Expr::Call: left to right, stopping at the first error.
RECURSIVE EvalArguments(_, _, _, _, _)
EvalArguments(exprs, i, values, st, call) ==
    IF i > Len(exprs) THEN [st |-> st, k |-> "Ok", v |-> values]
    ELSE LET r == Evaluate(exprs[i], PartEvent(st, call, "argument", i))
         IN  IF r.k # "Ok" THEN r
             ELSE EvalArguments(exprs, i + 1, Append(values, r.v), r.st, call)

\* History: a call whose callee is an async function has returned r;
\* body_evals counts the evaluations started since the callee was
\* evaluated.
AsyncCallEvent(r, callee) ==
    IF callee.v.t # "AsyncFunction" \/ r.k = "Panic" THEN r
    ELSE [r EXCEPT !.st =
            Log(@, [ev |-> "async", name |-> callee.v.name,
                    body_evals |-> @.evals - callee.st.evals, res |-> r.k,
                    pending |-> /\ r.k = "Ok"
                                /\ r.v.t = "Promise"
                                /\ @.promises[r.v.p].state = "Pending"])]

\* Expr::Call.  The arguments are evaluated first, then the receiver (if
\* any), then the callee.
EvalCall(e, st) ==
    LET call == st.evals
        args == EvalArguments(e.arguments, 1, <<>>, st, call)
    IN  IF args.k # "Ok" THEN args
        ELSE IF Len(e.owner) > 0
        THEN LET owner == Evaluate(e.owner[1],
                                   PartEvent(args.st, call, "receiver", 0))
             IN  IF owner.k # "Ok" THEN owner
                 ELSE IF owner.v.t # "Instance"
                 THEN Err(owner.st, RuntimeError("InvalidCall"))
                 ELSE LET previous == owner.st.environment
                          callee == Evaluate(e.callee,
                                       PartEvent([owner.st EXCEPT
                                                    !.environment = owner.v.env],
                                                 call, "callee", 0))
                      IN  IF callee.k # "Ok" THEN callee
                          ELSE LET result ==
                                       AsyncCallEvent(
                                           ExecuteCall(<<owner.v>>, callee.v,
                                                       args.v, callee.st),
                                           callee)
                               IN  IF result.k = "Panic" THEN result
                                   ELSE [result EXCEPT
                                            !.st.environment = previous]
        ELSE LET callee == Evaluate(e.callee,
                                    PartEvent(args.st, call, "callee", 0))
             IN  IF callee.k # "Ok" THEN callee
                 ELSE CASE callee.v.t = "Function" ->
                             ExecuteCall(<<>>, callee.v, args.v, callee.st)
                        [] callee.v.t = "AsyncFunction" ->
                             AsyncCallEvent(
                                 CreatePromise(callee.st,
                                     ExecuteAsyncCall(<<>>, callee.v, args.v,
                                                      callee.st)),
                                 callee)
                        [] callee.v.t = "NativeFunction" ->
                             ExecuteCall(<<>>, callee.v, args.v, callee.st)
                        [] OTHER -> Err(callee.st, RuntimeError("InvalidCall"))

AwaitEvent(r, p, before, polled) ==
    [r EXCEPT !.st =
        Log(@, [ev |-> "await", p |-> p, before |-> before,
                polled |-> polled, res |-> r.k,
                out |-> IF r.k = "Ok" THEN <<r.v>> ELSE <<>>,
                after |-> @.promises[p].state])]

BlockOnSkip(p, st) ==
    Ok([st EXCEPT !.promises[p].future.poll = "completed"], Nil)

\* The Pending arm of Expr::Await: block_on polls the future behind the
\* promise and its output is returned; the promise's state is not written.
\* An async block polled again after it has completed panics.
BlockOn(p, st) ==
    LET future == st.promises[p].future
    IN  IF future.poll = "completed" THEN Panicked(st)
        ELSE LET r == RunFuture(future, st)
             IN  IF r.k = "Panic" THEN r
                 ELSE [r EXCEPT !.st.promises[p].future.poll = "completed"]

\* Expr::Await
EvalAwait(e, st) ==
    LET expr == Evaluate(e.expr, st)
    IN  IF expr.k # "Ok" THEN expr
        ELSE IF expr.v.t # "Promise"
        THEN Err(expr.st, RuntimeError("InvalidCall"))
        ELSE LET p == expr.v.p
                 promise == expr.st.promises[p]
             IN  CASE promise.state = "Pending" ->
                        AwaitEvent(BlockOn(p, expr.st), p, promise, TRUE)
                   [] promise.state = "Fulfilled" ->
                        AwaitEvent(Ok(expr.st, promise.value), p, promise,
                                   FALSE)
                   [] promise.state = "Rejected" ->
                        AwaitEvent(Err(expr.st, RuntimeError("PromiseRejected")),
                                   p, promise, FALSE)

EvalIf(e, st) ==
    LET cond == Evaluate(e.cond, st)
    IN  IF cond.k # "Ok" THEN cond
        ELSE IF IsTruthy(cond.v) THEN Evaluate(e.then_branch, cond.st)
        ELSE Evaluate(e.else_branch, cond.st)

LogicalEvent(r, op, left, after_left) ==
    [r EXCEPT !.st =
        Log(@, [ev |-> "logical", op |-> op, left |-> left,
                right_evals |-> @.evals - after_left, res |-> r.k,
                out |-> IF r.k = "Ok" THEN <<r.v>> ELSE <<>>])]

\* Expr::Logical as it would be if both operands were evaluated before the
\* operator is looked at.
EvalLogicalEager(e, st) ==
    LET left == Evaluate(e.left, st)
    IN  IF left.k # "Ok" THEN left
        ELSE LET right == Evaluate(e.right, left.st)
             IN  IF right.k # "Ok" THEN right
                 ELSE LogicalEvent(
                        CASE e.op = "Or" ->
                                Ok(right.st, IF IsTruthy(left.v) THEN left.v
                                             ELSE right.v)
                          [] e.op = "And" ->
                                Ok(right.st, IF ~IsTruthy(left.v) THEN left.v
                                             ELSE right.v)
                          [] OTHER ->
                                Err(right.st,
                                    RuntimeError("InvalidLogicalOperator")),
                        e.op, left.v, left.st.evals)

\* Expr::Logical
EvalLogical(e, st) ==
    LET left == Evaluate(e.left, st)
    IN  IF left.k # "Ok" THEN left
        ELSE LogicalEvent(
               CASE e.op = "Or" ->
                       IF IsTruthy(left.v) THEN Ok(left.st, left.v)
                       ELSE Evaluate(e.right, left.st)
                 [] e.op = "And" ->
                       IF ~IsTruthy(left.v) THEN Ok(left.st, left.v)
                       ELSE Evaluate(e.right, left.st)
                 [] OTHER ->
                       Err(left.st, RuntimeError("InvalidLogicalOperator")),
               e.op, left.v, left.st.evals)

\* The loop of Expr::While, entered with the condition's value.
RECURSIVE WhileLoop(_, _, _, _)
WhileLoop(e, cond, result, st) ==
    IF ~IsTruthy(cond) THEN Ok(st, result)
    ELSE LET body == Evaluate(e.body, st)
         IN  IF body.k # "Ok" THEN body
             ELSE LET next == Evaluate(e.cond, body.st)
                  IN  IF next.k # "Ok" THEN next
                      ELSE WhileLoop(e, next.v, body.v, next.st)

EvalWhile(e, st) ==
    LET cond == Evaluate(e.cond, st)
    IN  IF cond.k # "Ok" THEN cond ELSE WhileLoop(e, cond.v, Nil, cond.st)

EvalReturn(e, st) ==
    LET value == Evaluate(e.value, st)
    IN  IF value.k # "Ok" THEN value
        ELSE Err(MarkReturn(value.st, value.v), ReturnError(value.v))

EvalImport(e, st) ==
    LET path == Evaluate(e.path, st)
    IN  IF path.k # "Ok" THEN path
        ELSE IF path.v.t # "String"
        THEN Err(path.st, RuntimeError("InvalidImport"))
        ELSE LET r == ImportModule(path.v.s, path.st)
             IN  IF r.k # "Ok" THEN r ELSE Ok(r.st, path.v)

\* The loop of Expr::Class over the method declarations.
RECURSIVE ClassMethods(_, _, _)
ClassMethods(methods, i, class_methods) ==
    IF i > Len(methods) THEN [ok |-> TRUE, methods |-> class_methods]
    ELSE IF methods[i].k # "Function" THEN [ok |-> FALSE]
    ELSE ClassMethods(methods, i + 1,
                      Insert(class_methods, methods[i].name,
                             Function(methods[i].name, methods[i].params,
                                      methods[i].body)))

EvalClass(e, st) ==
    LET m == ClassMethods(e.methods, 1, EmptyMap)
    IN  IF ~m.ok THEN Err(st, RuntimeError("InvalidClassMethod"))
        ELSE LET class == Class(e.name, m.methods)
             IN  Ok([st EXCEPT !.heap = Define(@, st.environment, e.name, class)],
                    class)

\* Interpreter::evaluate
Evaluate(expr, st0) ==
    LET st == Touch(st0)
    IN  CASE expr.k = "Literal" -> EvalLiteral(expr, st)
          [] expr.k = "Variable" -> EvalVariable(expr, st)
          [] expr.k = "Array" -> EvalArray(expr, st)
          [] expr.k = "Dictionary" -> EvalDictionary(expr, st)
          [] expr.k = "Binary" -> EvalBinary(expr, st)
          [] expr.k = "Unary" -> EvalUnary(expr, st)
          [] expr.k = "Assign" -> EvalAssign(expr, st)
          [] expr.k = "Set" -> EvalSet(expr, st)
          [] expr.k = "Get" -> EvalGet(expr, st)
          [] expr.k = "Let" -> EvalLet(expr, st)
          [] expr.k = "Block" -> EvalBlock(expr, st)
          [] expr.k = "Function" -> EvalFunction(expr, st)
          [] expr.k = "AsyncFunction" -> EvalAsyncFunction(expr, st)
          [] expr.k = "Call" -> EvalCall(expr, st)
          [] expr.k = "Await" -> EvalAwait(expr, st)
          [] expr.k = "Grouping" -> Evaluate(expr.expr, st)
          [] expr.k = "Nil" -> Ok(st, Nil)
          [] expr.k = "If" -> EvalIf(expr, st)
          [] expr.k = "Logical" -> EvalLogical(expr, st)
          [] expr.k = "While" -> EvalWhile(expr, st)
          [] expr.k = "Return" -> EvalReturn(expr, st)
          [] expr.k = "Import" -> EvalImport(expr, st)
          [] expr.k = "Class" -> EvalClass(expr, st)
          [] expr.k = "TryCatch" -> ExecuteTryCatch(expr, st)

----------------------------------------------------------------------------
(* The scripts the model runs: each is the Vec of top-level expressions    *)
(* the parser produces for the source text shown with it.                  *)

\* The deepest nesting of blocks around a statement of a script.
MaxDepth == 3

Num(text) == ExprLiteral("Number", text)
Str(text) == ExprLiteral("STRING", text)
TrueLit == ExprLiteral("True", "true")
FalseLit == ExprLiteral("False", "false")
NilLit == ExprLiteral("Nil", "nil")
Var(name) == ExprVariable(name)
CallFn(name, arguments) == ExprCall(<<>>, Var(name), arguments)
PrintCall(expr) == CallFn("print", <<expr>>)

\* expr wrapped in d blocks: { { ... expr ... } }
RECURSIVE Nest(_, _)
Nest(expr, d) == IF d = 0 THEN expr ELSE ExprBlock(<<Nest(expr, d - 1)>>)

\* fun f() { {..{ return 1 }..}  print("after")  return 9 }   var r = f()
ReturnScript(d) ==
    << ExprFunction("f", <<>>,
           ExprBlock(<< Nest(ExprReturn(Num("1.0")), d),
                        PrintCall(Str("after")),
                        ExprReturn(Num("9.0")) >>)),
       ExprLet("r", CallFn("f", <<>>)),
       PrintCall(Var("r")) >>

\* fun g(n) { if (n < 2) {..{ return n }..}  return 7 }  var r = g(1)
IfReturnScript(d) ==
    << ExprFunction("g", <<"n">>,
           ExprBlock(<< ExprIf(ExprBinary(Var("n"), "Less", Num("2.0")),
                               Nest(ExprReturn(Var("n")), d), ExprNil),
                        ExprReturn(Num("7.0")) >>)),
       ExprLet("r", CallFn("g", <<Num("1.0")>>)),
       PrintCall(Var("r")) >>

\* var x = 1  {..{ var x = 2  x = 3 }..}  var r = x
ScopeScript(d) ==
    << ExprLet("x", Num("1.0")),
       Nest(ExprBlock(<<ExprLet("x", Num("2.0")),
                        ExprAssign("x", Num("3.0"))>>), d),
       ExprLet("r", Var("x")),
       PrintCall(Var("r")) >>

\* var x = 1  {..{ nosuch }..}          (a runtime error inside d + 1 blocks)
ErrorScript(d) ==
    << ExprLet("x", Num("1.0")),
       Nest(ExprBlock(<<ExprLet("y", Num("2.0")), Var("nosuch")>>), d),
       PrintCall(Var("x")) >>

\* var x = 1  try { {..{ var x = 2  nosuch }..} } catch (e) { print(e) }  var r = x
TryScript(d) ==
    << ExprLet("x", Num("1.0")),
       ExprTryCatch(ExprBlock(<<Nest(ExprBlock(<<ExprLet("x", Num("2.0")),
                                                 Var("nosuch")>>), d)>>),
                    "e", ExprBlock(<<PrintCall(Var("e"))>>)),
       ExprLet("r", Var("x")) >>

\* async fun g(n) { {..{ return n }..} }  var p = g(7)  var r = await p
\* print(r)
AwaitScript(d) ==
    << ExprAsyncFunction("g", <<"n">>,
           ExprBlock(<< Nest(ExprReturn(Var("n")), d) >>)),
       ExprLet("p", CallFn("g", <<Num("7.0")>>)),
       ExprLet("r", ExprAwait(Var("p"))),
       PrintCall(Var("r")) >>

\* async fun g() { {..{ return 7 }..} }  var p = g()  var a = await p
\* var b = await p  print(b)
AwaitTwiceScript(d) ==
    << ExprAsyncFunction("g", <<>>,
           ExprBlock(<< Nest(ExprReturn(Num("7.0")), d) >>)),
       ExprLet("p", CallFn("g", <<>>)),
       ExprLet("a", ExprAwait(Var("p"))),
       ExprLet("b", ExprAwait(Var("p"))),
       PrintCall(Var("b")) >>

\* async fun g() { {..{ nosuch }..} }  var p = g()  var r = await p
AwaitErrorScript(d) ==
    << ExprAsyncFunction("g", <<>>,
           ExprBlock(<< Nest(Var("nosuch"), d) >>)),
       ExprLet("p", CallFn("g", <<>>)),
       ExprLet("r", ExprAwait(Var("p"))) >>

\* var p = delay(1)  {..{ await p }..}  print("done")
DelayScript(d) ==
    << ExprLet("p", CallFn("delay", <<Num("1.0")>>)),
       Nest(ExprAwait(Var("p")), d),
       PrintCall(Str("done")) >>

Import(text) == ExprImport(Str(text))

\* import "m.al"  {..{ import "m.al" }..}  import "m.al"  print(m)
\* (d = 0: three imports at the top level)
ImportScript(d) ==
    << Import("m.al"),
       Nest(Import("m.al"), d),
       Import("m.al"),
       PrintCall(Var("m")) >>

\* { {..{ import "m.al" }..} }  import "m.al"  print(m)
ImportBlockScript(d) ==
    << ExprBlock(<< Nest(Import("m.al"), d) >>),
       Import("m.al"),
       PrintCall(Var("m")) >>

\* try { {..{ import "bad.al" }..} } catch (e) { print(e) }
\* try { import "bad.al" } catch (e) { print(e) }
ImportFailScript(d) ==
    << ExprTryCatch(ExprBlock(<< Nest(Import("bad.al"), d) >>), "e",
                    ExprBlock(<< PrintCall(Var("e")) >>)),
       ExprTryCatch(ExprBlock(<< Import("bad.al") >>), "e",
                    ExprBlock(<< PrintCall(Var("e")) >>)) >>

\* The left operands of the logical scripts: true, false, nil, 0, 1, "s".
Operands ==
    << TrueLit, FalseLit, NilLit, Num("0.0"), Num("1.0"), Str("s") >>

\* var r = {..{ <a> or print("right") }..}
\* var q = {..{ <b> and print("right") }..}
LogicalScript(a, b, d) ==
    << ExprLet("r", Nest(ExprLogical(a, "Or", PrintCall(Str("right"))), d)),
       ExprLet("q", Nest(ExprLogical(b, "And", PrintCall(Str("right"))), d)) >>

\* fun side() { print("left")  return <left> }
\* var r = side() <op> side()
LogicalCallScript(left, op) ==
    << ExprFunction("side", <<>>,
           ExprBlock(<< PrintCall(Str("left")), ExprReturn(left) >>)),
       ExprLet("r", ExprLogical(CallFn("side", <<>>), op,
                                CallFn("side", <<>>))) >>

LogicalScripts ==
    [i \in 1..(Len(Operands) * Len(Operands)) |->
        LogicalScript(Operands[((i - 1) \div Len(Operands)) + 1],
                      Operands[((i - 1) % Len(Operands)) + 1], MaxDepth)]
    \o
    [i \in 1..(2 * Len(Operands)) |->
        IF i <= Len(Operands)
        THEN LogicalCallScript(Operands[i], "Or")
        ELSE LogicalCallScript(Operands[i - Len(Operands)], "And")]

\* new C(args): Parser::class_instantiation yields a Call without receiver
\* whose callee is the variable C.
New(class, arguments) == ExprCall(<<>>, Var(class), arguments)

\* class C { fun get() { {..{ return 1 }..} } }  var o = new C()
\* var t = typeOf(o)
ClassScript(d) ==
    << ExprClass("C", << ExprFunction("get", <<>>,
                            ExprBlock(<< Nest(ExprReturn(Num("1.0")), d) >>)) >>),
       ExprLet("o", New("C", <<>>)),
       ExprLet("t", CallFn("typeOf", <<Var("o")>>)) >>

\* class C { fun _construct(v) { var x = v }
\*           fun setx(v) { {..{ x = v }..} }
\*           fun getx() { return x } }
\* var a = new C(1)  var b = a  b.setx(2)  var r = a.getx()
\* (`b.setx(2)` parses to Get(b, Call(setx, 2)), Parser::instance_or_get_or_set)
AliasScript(d) ==
    << ExprClass("C",
          << ExprFunction("_construct", <<"v">>,
                 ExprBlock(<< ExprLet("x", Var("v")) >>)),
             ExprFunction("setx", <<"v">>,
                 ExprBlock(<< Nest(ExprAssign("x", Var("v")), d) >>)),
             ExprFunction("getx", <<>>,
                 ExprBlock(<< ExprReturn(Var("x")) >>)) >>),
       ExprLet("a", New("C", <<Num("1.0")>>)),
       ExprLet("b", Var("a")),
       ExprGet(Var("b"), CallFn("setx", <<Num("2.0")>>)),
       ExprLet("r", ExprGet(Var("a"), CallFn("getx", <<>>))) >>

\* try { <statement> } catch (e) { }
Try(statement) == ExprTryCatch(ExprBlock(<<statement>>), "e", ExprBlock(<<>>))

\* var d = dict { "a": 1 }
\* and, for every operand k:
\*   try { {..{ d[k] = 2 }..} } catch (e) { }
\*   try { {..{ var x = dict { "b": 1, k: 2 } }..} } catch (e) { }
DictScript(d) ==
    << ExprLet("d", ExprDictionary(<< <<Str("a"), Num("1.0")>> >>)) >>
    \o [i \in 1..(2 * Len(Operands)) |->
          IF i % 2 = 1
          THEN Try(Nest(ExprSet("d", Operands[(i + 1) \div 2], Num("2.0")), d))
          ELSE Try(Nest(ExprLet("x",
                        ExprDictionary(<< <<Str("b"), Num("1.0")>>,
                                          <<Operands[i \div 2], Num("2.0")>> >>)),
                        d))]

\* var x = 1
\* try { {..{ nosuch }..} } catch (e) { var y = e  print(y) }
\* try { {..{ x() }..} } catch (e) { {..{ var x = e  x[0] }..} }
\* (the second catch body ends in an error of its own)
CatchScript(d) ==
    << ExprLet("x", Num("1.0")),
       ExprTryCatch(ExprBlock(<< Nest(Var("nosuch"), d) >>), "e",
                    ExprBlock(<< ExprLet("y", Var("e")),
                                 PrintCall(Var("y")) >>)),
       ExprTryCatch(ExprBlock(<< Nest(CallFn("x", <<>>), d) >>), "e",
                    ExprBlock(<< Nest(ExprBlock(<<
                                    ExprLet("x", Var("e")),
                                    ExprGet(Var("x"), Num("0.0")) >>), d) >>)) >>

\* import "m.al"  var m = 5  var typeOf = 7
\* {..{ print(m) }..}  {..{ typeOf }..}  { var delay = 1  {..{ delay }..} }
ShadowScript(d) ==
    << Import("m.al"),
       ExprLet("m", Num("5.0")),
       ExprLet("typeOf", Num("7.0")),
       Nest(PrintCall(Var("m")), d),
       Nest(Var("typeOf"), d),
       ExprBlock(<< ExprLet("delay", Num("1.0")), Nest(Var("delay"), d) >>) >>

\* fun f(n) { {..{ return n }..} }
\* async fun g(n) { {..{ return f(n) }..} }
\* var p = g(7)  var r = await p  print(r)
ReturnBothScript(d) ==
    << ExprFunction("f", <<"n">>,
           ExprBlock(<< Nest(ExprReturn(Var("n")), d) >>)),
       ExprAsyncFunction("g", <<"n">>,
           ExprBlock(<< Nest(ExprReturn(CallFn("f", <<Var("n")>>)), d) >>)),
       ExprLet("p", CallFn("g", <<Num("7.0")>>)),
       ExprLet("r", ExprAwait(Var("p"))),
       PrintCall(Var("r")) >>

\* try { {..{ nosuch(print("first"), print("second")) }..} }
\* catch (e) { print(e) }
OrderScript(d) ==
    << ExprTryCatch(
           ExprBlock(<< Nest(CallFn("nosuch", << PrintCall(Str("first")),
                                                 PrintCall(Str("second")) >>),
                             d) >>),
           "e", ExprBlock(<< PrintCall(Var("e")) >>)) >>

\* fun f(a, b) { print("body")  return a }
\* try { {..{ f(1) }..} } catch (e) { print(e) }
\* try { {..{ f(1, 2, 3) }..} } catch (e) { print(e) }
ArityScript(d) ==
    << ExprFunction("f", <<"a", "b">>,
           ExprBlock(<< PrintCall(Str("body")), ExprReturn(Var("a")) >>)),
       ExprTryCatch(ExprBlock(<< Nest(CallFn("f", <<Num("1.0")>>), d) >>),
                    "e", ExprBlock(<< PrintCall(Var("e")) >>)),
       ExprTryCatch(ExprBlock(<< Nest(CallFn("f", <<Num("1.0"), Num("2.0"),
                                                    Num("3.0")>>), d) >>),
                    "e", ExprBlock(<< PrintCall(Var("e")) >>)) >>

\* class C { fun _construct(v) { var x = v } }
\* var o = new C(1)  var x = 5  var r = {..{ o."x" }..}
\* {..{ o."x" = 7 }..}  var s = o."x"
\* (the name part of a Get or Set is an expression; a string names a field)
FieldScript(d) ==
    << ExprClass("C", << ExprFunction("_construct", <<"v">>,
                            ExprBlock(<< ExprLet("x", Var("v")) >>)) >>),
       ExprLet("o", New("C", <<Num("1.0")>>)),
       ExprLet("x", Num("5.0")),
       ExprLet("r", Nest(ExprGet(Var("o"), Str("x")), d)),
       Nest(ExprSet("o", Str("x"), Num("7.0")), d),
       ExprLet("s", ExprGet(Var("o"), Str("x"))) >>

\* -n
Neg(text) == ExprUnary("Minus", Num(text))

\* var a = [1, 2]
\* try { {..{ a[2] }..} } catch (e) { }
\* try { {..{ a[2] = 9 }..} } catch (e) { }
\* var r = {..{ a[-1] }..}   {..{ a[-1] = 9 }..}
\* var n = []  try { n[0] } catch (e) { }  {..{ n[-1] }..}
ArrayScript(d) ==
    << ExprLet("a", ExprArray(<< Num("1.0"), Num("2.0") >>)),
       Try(Nest(ExprGet(Var("a"), Num("2.0")), d)),
       Try(Nest(ExprSet("a", Num("2.0"), Num("9.0")), d)),
       ExprLet("r", Nest(ExprGet(Var("a"), Neg("1.0")), d)),
       Nest(ExprSet("a", Neg("1.0"), Num("9.0")), d),
       ExprLet("n", ExprArray(<<>>)),
       Try(ExprGet(Var("n"), Num("0.0"))),
       Nest(ExprGet(Var("n"), Neg("1.0")), d) >>

\* var a = [1, 2, 3]  var c = a  {..{ a[1] = 9 }..}  print(a[1])
\* {..{ var a = [5]  a[0] = 7 }..}
ArraySetScript(d) ==
    << ExprLet("a", ExprArray(<< Num("1.0"), Num("2.0"), Num("3.0") >>)),
       ExprLet("c", Var("a")),
       Nest(ExprSet("a", Num("1.0"), Num("9.0")), d),
       PrintCall(ExprGet(Var("a"), Num("1.0"))),
       Nest(ExprBlock(<< ExprLet("a", ExprArray(<< Num("5.0") >>)),
                         ExprSet("a", Num("0.0"), Num("7.0")) >>), d) >>

\* var a = [1, 2]  var b = a  {..{ b[0] = 9 }..}  var r = a[0]
\* var m = dict { "k": 1 }  var n = m  {..{ n["k"] = 2 }..}  var s = m["k"]
SharedScript(d) ==
    << ExprLet("a", ExprArray(<< Num("1.0"), Num("2.0") >>)),
       ExprLet("b", Var("a")),
       Nest(ExprSet("b", Num("0.0"), Num("9.0")), d),
       ExprLet("r", ExprGet(Var("a"), Num("0.0"))),
       ExprLet("m", ExprDictionary(<< <<Str("k"), Num("1.0")>> >>)),
       ExprLet("n", Var("m")),
       Nest(ExprSet("n", Str("k"), Num("2.0")), d),
       ExprLet("s", ExprGet(Var("m"), Str("k"))) >>

\* class C { }  var a = [1, 2]  var b = [1, 2]
\* var m = dict { "k": 1 }  var n = dict { "k": 1 }
\* {..{ a == b }..}  {..{ a != b }..}  {..{ m == n }..}  {..{ m != n }..}
\* {..{ C == C }..}  {..{ C != C }..}  {..{ 1 == 1 }..}  {..{ a == m }..}
EqualScript(d) ==
    << ExprClass("C", <<>>),
       ExprLet("a", ExprArray(<< Num("1.0"), Num("2.0") >>)),
       ExprLet("b", ExprArray(<< Num("1.0"), Num("2.0") >>)),
       ExprLet("m", ExprDictionary(<< <<Str("k"), Num("1.0")>> >>)),
       ExprLet("n", ExprDictionary(<< <<Str("k"), Num("1.0")>> >>)),
       Nest(ExprBinary(Var("a"), "EqualEqual", Var("b")), d),
       Nest(ExprBinary(Var("a"), "BandEqual", Var("b")), d),
       Nest(ExprBinary(Var("m"), "EqualEqual", Var("n")), d),
       Nest(ExprBinary(Var("m"), "BandEqual", Var("n")), d),
       Nest(ExprBinary(Var("C"), "EqualEqual", Var("C")), d),
       Nest(ExprBinary(Var("C"), "BandEqual", Var("C")), d),
       Nest(ExprBinary(Num("1.0"), "EqualEqual", Num("1.0")), d),
       Nest(ExprBinary(Var("a"), "EqualEqual", Var("m")), d) >>

\* try { {..{ import "lib/n.al" }..} } catch (e) { print(e) }
\* (n.al, in /proj/lib, imports its neighbour "k.al")
LibScript(d) ==
    << ExprTryCatch(ExprBlock(<< Nest(Import("lib/n.al"), d) >>), "e",
                    ExprBlock(<< PrintCall(Var("e")) >>)) >>

\* var x = 1  async fun g() { x = 2  {..{ return 7 }..} }  var p = g()
\* print(x)  var r = await p  print(x)
AsyncEffectScript(d) ==
    << ExprLet("x", Num("1.0")),
       ExprAsyncFunction("g", <<>>,
           ExprBlock(<< ExprAssign("x", Num("2.0")),
                        Nest(ExprReturn(Num("7.0")), d) >>)),
       ExprLet("p", CallFn("g", <<>>)),
       PrintCall(Var("x")),
       ExprLet("r", ExprAwait(Var("p"))),
       PrintCall(Var("x")) >>

\* var n = 1  async fun g(n) { {..{ return n }..} }  var p = g(7)
\* var r = await p  print(n)
AsyncParamScript(d) ==
    << ExprLet("n", Num("1.0")),
       ExprAsyncFunction("g", <<"n">>,
           ExprBlock(<< Nest(ExprReturn(Var("n")), d) >>)),
       ExprLet("p", CallFn("g", <<Num("7.0")>>)),
       ExprLet("r", ExprAwait(Var("p"))),
       PrintCall(Var("n")) >>

\* {..{ import "m.al"  import "lib/m.al"
\*       try { print(m)  print(q) } catch (e) { print(e) } }..}
\* (d = 0: the three statements in one block)
SameStemScript(d) ==
    << Nest(ExprBlock(<< Import("m.al"), Import("lib/m.al"),
                         ExprTryCatch(ExprBlock(<< PrintCall(Var("m")),
                                                   PrintCall(Var("q")) >>),
                                      "e",
                                      ExprBlock(<< PrintCall(Var("e")) >>)) >>),
            d) >>

\* import "lex.al"  {..{ print(z) }..}
\* (the tokenizer records an error on lex.al)
LexErrorScript(d) ==
    << Import("lex.al"), Nest(PrintCall(Var("z")), d) >>

\* The scripts of a family, for every depth 0 .. MaxDepth.
Family(F(_)) == [i \in 1..(MaxDepth + 1) |-> F(i - 1)]

Families ==
    << Family(ReturnScript), Family(IfReturnScript), Family(ScopeScript),
       Family(ErrorScript), Family(TryScript), Family(AwaitScript),
       Family(AwaitTwiceScript), Family(AwaitErrorScript),
       Family(DelayScript), Family(ImportScript), Family(ImportBlockScript),
       Family(ImportFailScript), Family(ClassScript), Family(AliasScript),
       Family(DictScript), Family(CatchScript),
       Family(ShadowScript),
       Family(ReturnBothScript),
       Family(OrderScript),
       Family(ArityScript),
       Family(FieldScript),
       Family(ArrayScript),
       Family(ArraySetScript),
       Family(SharedScript),
       Family(EqualScript),
       Family(LibScript),
       Family(AsyncEffectScript),
       Family(AsyncParamScript),
       Family(SameStemScript),
       Family(LexErrorScript) >>

\* The family and the depth of script number p; 0 for a logical script.
FamilyOf(p) ==
    IF p > Len(Families) * (MaxDepth + 1) THEN 0
    ELSE ((p - 1) \div (MaxDepth + 1)) + 1

RECURSIVE Concat(_, _)
Concat(seqs, i) == IF i > Len(seqs) THEN <<>> ELSE seqs[i] \o Concat(seqs, i + 1)

Scripts == Concat(Families, 1) \o LogicalScripts

----------------------------------------------------------------------------
(* The state machine: main.rs runs Interpreter::interpret on the parsed    *)
(* script; one step is one turn of interpret's loop (interpreter/mod.rs    *)
(* 64-80).                                                                 *)

\* The stems of the module files whose import can succeed.
ModuleStems == {"m", "lex"}

\* The orders in which a HashMap keyed by the module stems may iterate.
HashOrders ==
    {o \in [1..Cardinality(ModuleStems) -> ModuleStems] :
        \A i, j \in DOMAIN o : i # j => o[i] # o[j]}

NoError == [kind |-> "none"]

\* The interpreter state as the record the evaluator threads.
State ==
    [environment |-> environment, heap |-> heap, promises |-> promises,
     stdout |-> stdout, hash_order |-> hash_order, events |-> events,
     call_stack |-> call_stack, evals |-> evals]

\* The result of evaluating the next top-level expression.
Turn == Evaluate(Scripts[prog][pc], State)

Commit(st) ==
    /\ environment' = st.environment
    /\ heap' = st.heap
    /\ promises' = st.promises
    /\ stdout' = st.stdout
    /\ events' = st.events
    /\ call_stack' = st.call_stack
    /\ evals' = st.evals
    /\ UNCHANGED <<prog, hash_order>>
    /\ UNCHANGED <<lexer, parse>>

\* main.rs:40: Interpreter::new_with_base_path(base_dir), then interpret.
Init ==
    /\ prog \in DOMAIN Scripts
    /\ pc = 1
    /\ status = "running"
    /\ last_value = Nil
    /\ last_error = NoError
    /\ environment = 1
    /\ heap = <<NewEnvironment(ProjDir)>>
    /\ promises = <<>>
    /\ stdout = <<>>
    /\ hash_order \in HashOrders
    /\ events = <<>>
    /\ call_stack = <<>>
    /\ evals = 0
    /\ chars = <<>>
    /\ current = 0
    /\ line = 1
    /\ tokens = <<>>
    /\ errors = <<>>
    /\ lexing = "idle"
    /\ parser = [tokens |-> <<>>, current |-> 0]
    /\ parsed = <<>>
    /\ lost = 0
    /\ parsing = "idle"

\* Ok(value) => last_value = value
InterpretOk ==
    /\ status = "running"
    /\ pc <= Len(Scripts[prog])
    /\ Turn.k = "Ok"
    /\ last_value' = Turn.v
    /\ pc' = pc + 1
    /\ Commit(Turn.st)
    /\ UNCHANGED <<status, last_error>>

\* Err(e) => return Err(e): main prints the error and exits with 70.
InterpretErr ==
    /\ status = "running"
    /\ pc <= Len(Scripts[prog])
    /\ Turn.k = "Err"
    /\ status' = "error"
    /\ last_error' = Turn.e
    /\ Commit(Turn.st)
    /\ UNCHANGED <<pc, last_value>>

\* The evaluator thread panics: the process dies.
InterpretPanic ==
    /\ status = "running"
    /\ pc <= Len(Scripts[prog])
    /\ Turn.k = "Panic"
    /\ status' = "panic"
    /\ Commit(Turn.st)
    /\ UNCHANGED <<pc, last_value, last_error>>

\* The loop ends: Ok(last_value).
InterpretDone ==
    /\ status = "running"
    /\ pc > Len(Scripts[prog])
    /\ status' = "ok"
    /\ UNCHANGED <<prog, pc, last_value, last_error, environment, heap,
                   promises, stdout, hash_order, events, call_stack, evals>>
    /\ UNCHANGED <<lexer, parse>>

Next == InterpretOk \/ InterpretErr \/ InterpretPanic \/ InterpretDone

Spec == Init /\ [][Next]_vars

----------------------------------------------------------------------------
(* The tokenizer (tokenizer/mod.rs).  A character is a string of length    *)
(* one and a text a sequence of characters.  One step of the state machine *)
(* is one turn of the loop of Tokenizer::tokenize; the action taken is the *)
(* match arm the character at `current` selects.                           *)

\* The longest input text.
MaxLen == 4

\* The characters the input texts are made of: a letter, a digit, a
\* punctuation character that also separates a number's fraction, the
\* first character of `==`, the slash of a comment, a quote, a newline, a
\* blank, and a character no arm knows.
Alphabet == {"a", "1", ".", "=", "/", "\"", "\n", " ", "@"}

\* char::is_digit(10), char::is_alphabetic, char::is_alphanumeric on ASCII.
IsDigit(c) == c \in {"0", "1", "2", "3", "4", "5", "6", "7", "8", "9"}
IsAlphabetic(c) == c \in {"a", "b", "c", "x", "y", "z", "A", "Z"}
IsAlphanumeric(c) == IsAlphabetic(c) \/ IsDigit(c)

\* The single-character arms of tokenize and their token types.
Punctuation ==
    ("(" :> "LeftParen") @@ (")" :> "RightParen") @@ ("[" :> "LeftBracket")
    @@ ("]" :> "RightBracket") @@ ("{" :> "LeftBrace")
    @@ ("}" :> "RightBrace") @@ (":" :> "Colon") @@ ("," :> "Comma")
    @@ ("." :> "Dot") @@ ("-" :> "Minus") @@ ("%" :> "Modulo")
    @@ ("+" :> "Plus") @@ (";" :> "Semicolon") @@ ("*" :> "Star")

\* The arms that look one character ahead for `=`: the token type with and
\* without it.
Operators ==
    ("!" :> <<"BandEqual", "Bang">>) @@ ("=" :> <<"EqualEqual", "Equal">>)
    @@ ("<" :> <<"LessEqual", "Less">>) @@ (">" :> <<"GreaterEqual", "Greater">>)

\* The keywords of Tokenizer::identifier, as characters.
Keywords == (<<"a", "a">> :> "And")

\* struct Token.  `at` is history: the 1-based position in the text of the
\* token's first character.
Token(token_type, lexeme, literal, ln, at) ==
    [token_type |-> token_type, lexeme |-> lexeme, literal |-> literal,
     line |-> ln, at |-> at]

\* A recorded TokenizerErrorKind with its line; `at` is history, the
\* position of the offending character.
TokenizerError(kind, ln, at) == [kind |-> kind, line |-> ln, at |-> at]

\* The character at 0-based index i of the text.
CharAt(i) == chars[i + 1]

\* Tokenizer::peek_next
PeekNext == IF current + 1 >= Len(chars) THEN "\\0" ELSE CharAt(current + 1)

IsIdentifierPart(c) == IsAlphanumeric(c) \/ c \in {"_", "-"}

\* The conditions of the scanning loops of tokenize, string, number and
\* identifier.
Holds(cond, c) ==
    CASE cond = "not newline" -> c # "\n"
      [] cond = "not quote" -> c # "\""
      [] cond = "digit" -> IsDigit(c)
      [] cond = "identifier" -> IsIdentifierPart(c)

\* The first index from i on at which the text ends or cond stops holding:
\* `while self.current < chars.len() && cond(chars[self.current])`.
RECURSIVE ScanWhile(_, _)
ScanWhile(i, cond) ==
    IF i < Len(chars) /\ Holds(cond, CharAt(i)) THEN ScanWhile(i + 1, cond)
    ELSE i

\* chars[from..to].iter().collect()
Slice(from, to) == SubSeq(chars, from + 1, to)

\* `while right.ends_with('0') { right.pop() }`
RECURSIVE TrimZeros(_)
TrimZeros(right) ==
    IF right # <<>> /\ right[Len(right)] = "0"
    THEN TrimZeros(SubSeq(right, 1, Len(right) - 1))
    ELSE right

\* What every arm of tokenize shares: the arm's effect, then
\* `self.current += 1`.
Advance(to) ==
    /\ current' = to + 1
    /\ UNCHANGED <<chars, lexing>>
    /\ UNCHANGED <<interp, parse>>

InLoop == lexing = "run" /\ current < Len(chars)

\* The arms '(' ... '*'.
LexPunctuation ==
    /\ InLoop
    /\ CharAt(current) \in DOMAIN Punctuation
    /\ tokens' = Append(tokens, Token(Punctuation[CharAt(current)],
                                      <<CharAt(current)>>, <<>>, line,
                                      current + 1))
    /\ Advance(current)
    /\ UNCHANGED <<line, errors>>

\* The arms '!', '=', '<', '>'.
LexOperator ==
    /\ InLoop
    /\ CharAt(current) \in DOMAIN Operators
    /\ IF PeekNext = "="
       THEN /\ tokens' = Append(tokens, Token(Operators[CharAt(current)][1],
                                    <<CharAt(current), "=">>, <<>>, line,
                                    current + 1))
            /\ Advance(current + 1)
       ELSE /\ tokens' = Append(tokens, Token(Operators[CharAt(current)][2],
                                    <<CharAt(current)>>, <<>>, line,
                                    current + 1))
            /\ Advance(current)
    /\ UNCHANGED <<line, errors>>

\* The arm '/': a line comment up to the newline or the end of the text,
\* then `self.line += 1`; or the Slash token.
LexSlash ==
    /\ InLoop
    /\ CharAt(current) = "/"
    /\ IF PeekNext = "/"
       THEN /\ line' = line + 1
            /\ Advance(ScanWhile(current, "not newline"))
            /\ UNCHANGED tokens
       ELSE /\ tokens' = Append(tokens, Token("Slash", <<"/">>, <<>>, line,
                                              current + 1))
            /\ Advance(current)
            /\ UNCHANGED line
    /\ UNCHANGED errors

\* The arm '\n'.
LexNewline ==
    /\ InLoop
    /\ CharAt(current) = "\n"
    /\ line' = line + 1
    /\ Advance(current)
    /\ UNCHANGED <<tokens, errors>>

\* The arm ' ', '\t', '\r'.
LexWhitespace ==
    /\ InLoop
    /\ CharAt(current) \in {" ", "\t", "\r"}
    /\ Advance(current)
    /\ UNCHANGED <<line, tokens, errors>>

\* The arm '"' with Tokenizer::string: up to the closing quote, or
\* UnterminatedString when the text ends first.  `line` is not touched.
LexString ==
    /\ InLoop
    /\ CharAt(current) = "\""
    /\ LET start == current + 1
           end == ScanWhile(start, "not quote")
       IN  IF end >= Len(chars)
           THEN /\ errors' = Append(errors,
                        TokenizerError("UnterminatedString", line, current + 1))
                /\ Advance(end)
                /\ UNCHANGED tokens
           ELSE /\ tokens' = Append(tokens,
                        Token("STRING", <<"\"">> \o Slice(start, end) \o <<"\"">>,
                              <<Slice(start, end)>>, line, current + 1))
                /\ Advance(end)
                /\ UNCHANGED errors
    /\ UNCHANGED line

\* The digit arm with Tokenizer::number, which ends with `current -= 1`.
LexNumber ==
    /\ InLoop
    /\ IsDigit(CharAt(current))
    /\ LET start == current
           fractional_start == ScanWhile(start, "digit")
           has_fraction == /\ fractional_start < Len(chars)
                           /\ CharAt(fractional_start) = "."
                           /\ fractional_start + 1 < Len(chars)
                           /\ IsDigit(CharAt(fractional_start + 1))
           end == IF has_fraction
                  THEN ScanWhile(fractional_start + 1, "digit")
                  ELSE fractional_start
           fractional_length == IF has_fraction
                                THEN end - (fractional_start + 1) ELSE 0
           left == Slice(start, fractional_start)
           trimmed == IF fractional_length > 0
                      THEN TrimZeros(Slice(fractional_start + 1,
                                 fractional_start + fractional_length + 1))
                      ELSE <<>>
           right == IF trimmed = <<>> THEN <<"0">> ELSE trimmed
       IN  /\ tokens' = Append(tokens,
                  Token("Number", Slice(start, end),
                        <<left \o <<".">> \o right>>, line, start + 1))
           /\ Advance(end - 1)
    /\ UNCHANGED <<line, errors>>

\* The letter / '_' arm with Tokenizer::identifier, which ends with
\* `current -= 1`.
LexIdentifier ==
    /\ InLoop
    /\ IsAlphabetic(CharAt(current)) \/ CharAt(current) = "_"
    /\ LET start == current
           end == ScanWhile(start, "identifier")
           value == Slice(start, end)
       IN  /\ tokens' = Append(tokens,
                  Token(IF value \in DOMAIN Keywords THEN Keywords[value]
                        ELSE "IDENTIfIER", value, <<>>, line, start + 1))
           /\ Advance(end - 1)
    /\ UNCHANGED <<line, errors>>

\* The arm `_` as it would be if the first unknown character ended the
\* loop.
LexUnexpectedStop ==
    /\ InLoop
    /\ LET c == CharAt(current)
       IN  /\ c \notin DOMAIN Punctuation
           /\ c \notin DOMAIN Operators
           /\ c \notin {"/", "\n", " ", "\t", "\r", "\""}
           /\ ~IsDigit(c)
           /\ ~(IsAlphabetic(c) \/ c = "_")
    /\ errors' = Append(errors, TokenizerError("UnexpectedCharacter", line,
                                               current + 1))
    /\ Advance(Len(chars))
    /\ UNCHANGED <<line, tokens>>

\* The arm `_`: the error is recorded and the loop goes on.
LexUnexpected ==
    /\ InLoop
    /\ LET c == CharAt(current)
       IN  /\ c \notin DOMAIN Punctuation
           /\ c \notin DOMAIN Operators
           /\ c \notin {"/", "\n", " ", "\t", "\r", "\""}
           /\ ~IsDigit(c)
           /\ ~(IsAlphabetic(c) \/ c = "_")
    /\ errors' = Append(errors, TokenizerError("UnexpectedCharacter", line,
                                               current + 1))
    /\ Advance(current)
    /\ UNCHANGED <<line, tokens>>

\* After the loop: the Eof token is pushed and tokenize returns Ok(()).
LexEof ==
    /\ lexing = "run"
    /\ current >= Len(chars)
    /\ tokens' = Append(tokens, Token("Eof", <<>>, <<>>, line, Len(chars) + 1))
    /\ lexing' = "done"
    /\ UNCHANGED <<chars, current, line, errors>>
    /\ UNCHANGED <<interp, parse>>

\* The texts of at most MaxLen characters.
Texts == UNION {[1..n -> Alphabet] : n \in 0..MaxLen}

\* Tokenizer::new() and the call of tokenize(input); no interpreter exists
\* yet (main.rs:29-33).
LexInit ==
    /\ chars \in Texts
    /\ current = 0
    /\ line = 1
    /\ tokens = <<>>
    /\ errors = <<>>
    /\ lexing = "run"
    /\ parser = [tokens |-> <<>>, current |-> 0]
    /\ parsed = <<>>
    /\ lost = 0
    /\ parsing = "idle"
    /\ prog = 1
    /\ pc = 1
    /\ status = "lexing"
    /\ last_value = Nil
    /\ last_error = NoError
    /\ environment = 1
    /\ heap = <<>>
    /\ promises = <<>>
    /\ stdout = <<>>
    /\ hash_order = <<>>
    /\ events = <<>>
    /\ call_stack = <<>>
    /\ evals = 0

LexNext ==
    \/ LexPunctuation
    \/ LexOperator
    \/ LexSlash
    \/ LexNewline
    \/ LexWhitespace
    \/ LexString
    \/ LexNumber
    \/ LexIdentifier
    \/ LexUnexpected
    \/ LexEof

LexSpec == LexInit /\ [][LexNext]_vars

\* tokenize is a loop of one thread: it takes its next turn whenever it has
\* one.
LexFairSpec == LexSpec /\ WF_vars(LexNext)

----------------------------------------------------------------------------
(* The parser (parser/mod.rs) on token lists built from identifiers, `=`,  *)
(* `(`, `)`, `.` and a number.  A parse function takes the token list and  *)
(* Parser.current and returns                                              *)
(*   [k |-> "Ok", expr, current, lost]  or  [k |-> "Err", current, lost];  *)
(* `current` is where the function left Parser.current, `lost` is history: *)
(* how many errors of a right-hand side were dropped on the way.           *)

MaxTokens == 5

\* The tokens of the model, by the one character of their lexeme.
TokenTypes ==
    ("a" :> "IDENTIfIER") @@ ("b" :> "IDENTIfIER") @@ ("=" :> "Equal")
    @@ ("(" :> "LeftParen") @@ (")" :> "RightParen") @@ ("." :> "Dot")
    @@ ("1" :> "Number")

\* The token list the tokenizer yields for a text of such lexemes: one
\* token per character, then Eof.
Tokenized(text) ==
    [i \in 1..Len(text) |->
        Token(TokenTypes[text[i]], <<text[i]>>,
              IF text[i] = "1" THEN << <<"1", ".", "0">> >> ELSE <<>>, 1, i)]
    \o << Token("Eof", <<>>, <<>>, 1, Len(text) + 1) >>

Parsed(expr, c, n) == [k |-> "Ok", expr |-> expr, current |-> c, lost |-> n]
ParserError(kind, c, n) == [k |-> "Err", kind |-> kind, current |-> c, lost |-> n]

\* Parser::peek, previous, is_at_end, check, advance
Peek(ts, c) == ts[c + 1]
Previous(ts, c) == ts[c]
IsAtEnd(ts, c) == Peek(ts, c).token_type = "Eof"
Check(ts, c, token_type) ==
    ~IsAtEnd(ts, c) /\ Peek(ts, c).token_type = token_type
AdvanceToken(ts, c) == IF IsAtEnd(ts, c) THEN c ELSE c + 1

\* Parser::match_tokens: Parser.current afterwards; it has moved iff a type
\* matched.
MatchTokens(ts, c, types) ==
    IF \E t \in types : Check(ts, c, t) THEN AdvanceToken(ts, c) ELSE c

\* Parser::consume
Consume(ts, c, token_type, n) ==
    IF Check(ts, c, token_type)
    THEN Parsed(Previous(ts, AdvanceToken(ts, c)), AdvanceToken(ts, c), n)
    ELSE ParserError("ExpectExpression", c, n)

RECURSIVE Primary(_, _)

\* Parser::expression: comparison, logical, term, factor and unary each
\* parse one operand and loop on operator tokens; no token of the model is
\* one of their operators, so each returns its first operand's result.
Expression(ts, c) == Primary(ts, c)

\* The loop of Parser::arguments.
RECURSIVE ArgumentsLoop(_, _, _, _)
ArgumentsLoop(ts, c, args, n) ==
    LET arg == Expression(ts, c)
    IN  IF arg.k = "Err" THEN [arg EXCEPT !.lost = @ + n]
        ELSE IF MatchTokens(ts, arg.current, {"Comma"}) # arg.current
        THEN ArgumentsLoop(ts, MatchTokens(ts, arg.current, {"Comma"}),
                           Append(args, arg.expr), n + arg.lost)
        ELSE Parsed(Append(args, arg.expr), arg.current, n + arg.lost)

\* Parser::arguments
Arguments(ts, c) ==
    IF ~Check(ts, c, "RightParen") THEN ArgumentsLoop(ts, c, <<>>, 0)
    ELSE Parsed(<<>>, c, 0)

\* `arguments()?  consume(RightParen)?`: the argument list, closed.
ArgumentList(ts, c) ==
    LET arguments == Arguments(ts, c)
    IN  IF arguments.k = "Err" THEN arguments
        ELSE LET close == Consume(ts, arguments.current, "RightParen",
                                  arguments.lost)
             IN  IF close.k = "Err" THEN close
                 ELSE Parsed(arguments.expr, close.current, close.lost)

\* The second loop of Parser::call: `while match LeftParen`, each turn
\* wrapping expr in a Call without receiver.
RECURSIVE CallLoop(_, _, _, _)
CallLoop(ts, c, expr, n) ==
    IF MatchTokens(ts, c, {"LeftParen"}) = c
    THEN IF expr.k = "Call" THEN Parsed(expr, c, n)
         ELSE ParserError("ExpectExpression", c, n)
    ELSE LET arguments == ArgumentList(ts, MatchTokens(ts, c, {"LeftParen"}))
         IN  IF arguments.k = "Err" THEN [arguments EXCEPT !.lost = @ + n]
             ELSE CallLoop(ts, arguments.current,
                           ExprCall(<<>>, expr, arguments.expr),
                           n + arguments.lost)

\* Parser::call
Call(ts, c) ==
    LET expr == ExprVariable(Previous(ts, c))
    IN  IF MatchTokens(ts, c, {"Dot"}) # c
        THEN LET fun_name == Consume(ts, MatchTokens(ts, c, {"Dot"}),
                                     "IDENTIfIER", 0)
             IN  IF fun_name.k = "Err" THEN fun_name
                 ELSE IF MatchTokens(ts, fun_name.current, {"LeftParen"})
                           # fun_name.current
                 THEN LET arguments ==
                              ArgumentList(ts, MatchTokens(ts, fun_name.current,
                                                           {"LeftParen"}))
                      IN  IF arguments.k = "Err" THEN arguments
                          ELSE Parsed(ExprCall(<<expr>>,
                                               ExprVariable(fun_name.expr),
                                               arguments.expr),
                                      arguments.current, arguments.lost)
                 ELSE CallLoop(ts, fun_name.current, expr, 0)
        ELSE CallLoop(ts, c, expr, 0)

\* Parser::instance_or_get_or_set
InstanceOrGetOrSet(ts, c) ==
    LET name == Previous(ts, c)
    IN  IF MatchTokens(ts, c, {"Dot"}) = c
        THEN ParserError("InvalidAssignmentTarget", c, 0)
        ELSE
        LET var == Expression(ts, MatchTokens(ts, c, {"Dot"}))
        IN  IF var.k = "Err" THEN var
            ELSE IF MatchTokens(ts, var.current, {"Equal"}) # var.current
            THEN LET new_value ==
                         Expression(ts, MatchTokens(ts, var.current, {"Equal"}))
                 IN  IF new_value.k = "Err"
                     THEN [new_value EXCEPT !.lost = @ + var.lost]
                     ELSE Parsed(ExprSet(name, var.expr, new_value.expr),
                                 new_value.current, var.lost + new_value.lost)
            ELSE IF MatchTokens(ts, var.current, {"LeftParen"}) # var.current
            THEN LET arguments ==
                         ArgumentList(ts, MatchTokens(ts, var.current,
                                                      {"LeftParen"}))
                 IN  IF arguments.k = "Err"
                     THEN [arguments EXCEPT !.lost = @ + var.lost]
                     ELSE Parsed(ExprCall(<<ExprVariable(name)>>, var.expr,
                                          arguments.expr),
                                 arguments.current, var.lost + arguments.lost)
            ELSE Parsed(ExprGet(ExprVariable(name), var.expr), var.current,
                        var.lost)

\* Parser::assignment
Assignment(ts, c) ==
    LET name == Previous(ts, c)
    IN  IF MatchTokens(ts, c, {"Equal"}) # c
        THEN LET value == Expression(ts, MatchTokens(ts, c, {"Equal"}))
             IN  IF value.k = "Err" THEN value
                 ELSE Parsed(ExprAssign(name, value.expr), value.current,
                             value.lost)
        ELSE ParserError("InvalidAssignmentTarget", c, 0)

\* The identifier arm of Parser::primary, after the identifier has been
\* matched: `if let Ok(expr) = self.assignment() { return Ok(expr) }
\* return self.variable()`, where variable() reads previous() at the place
\* the failed assignment left Parser.current.
IdentifierLed(ts, c) ==
    IF Check(ts, c, "LeftParen") THEN Call(ts, c)
    ELSE IF Check(ts, c, "Dot") THEN InstanceOrGetOrSet(ts, c)
    ELSE LET assignment == Assignment(ts, c)
         IN  IF assignment.k = "Ok" THEN assignment
             ELSE Parsed(ExprVariable(Previous(ts, assignment.current)),
                         assignment.current,
                         assignment.lost
                           + (IF assignment.current # c THEN 1 ELSE 0))

\* Parser::primary
Primary(ts, c) ==
    CASE Check(ts, c, "IDENTIfIER") -> IdentifierLed(ts, AdvanceToken(ts, c))
      [] Check(ts, c, "LeftParen") ->
            LET expr == Expression(ts, AdvanceToken(ts, c))
            IN  IF expr.k = "Err" THEN expr
                ELSE LET close == Consume(ts, expr.current, "RightParen",
                                          expr.lost)
                     IN  IF close.k = "Err" THEN close
                         ELSE Parsed(ExprGrouping(expr.expr), close.current,
                                     close.lost)
      [] Check(ts, c, "Number") ->
            Parsed(ExprLiteral("Number", Peek(ts, c).literal[1]),
                   AdvanceToken(ts, c), 0)
      [] OTHER -> ParserError("ExpectExpression", c, 0)

\* One turn of the loop of Parser::parse that pushes a statement.
ParseOk ==
    /\ parsing = "run"
    /\ ~IsAtEnd(parser.tokens, parser.current)
    /\ LET stmt == Expression(parser.tokens, parser.current)
       IN  /\ stmt.k = "Ok"
           /\ parsed' = Append(parsed, stmt.expr)
           /\ parser' = [parser EXCEPT !.current = stmt.current]
           /\ lost' = lost + stmt.lost
    /\ UNCHANGED parsing
    /\ UNCHANGED <<interp, lexer>>

\* The turn in which `self.expression()?` returns the error from parse:
\* no statement list is returned.
ParseErr ==
    /\ parsing = "run"
    /\ ~IsAtEnd(parser.tokens, parser.current)
    /\ LET stmt == Expression(parser.tokens, parser.current)
       IN  /\ stmt.k = "Err"
           /\ parsed' = <<>>
           /\ parser' = [parser EXCEPT !.current = stmt.current]
           /\ lost' = lost + stmt.lost
    /\ parsing' = "error"
    /\ UNCHANGED <<interp, lexer>>

\* The loop of Parser::parse ends at Eof: Ok(statements).
ParseEof ==
    /\ parsing = "run"
    /\ IsAtEnd(parser.tokens, parser.current)
    /\ parsing' = "ok"
    /\ UNCHANGED <<parser, parsed, lost>>
    /\ UNCHANGED <<interp, lexer>>

TokenTexts == UNION {[1..n -> DOMAIN TokenTypes] : n \in 0..MaxTokens}

\* Parser::new(tokens) and the call of parse(); the tokenizer has finished
\* and no interpreter exists yet (main.rs:38-40).
ParseInit ==
    /\ \E text \in TokenTexts :
          parser = [tokens |-> Tokenized(text), current |-> 0]
    /\ parsed = <<>>
    /\ lost = 0
    /\ parsing = "run"
    /\ chars = <<>>
    /\ current = 0
    /\ line = 1
    /\ tokens = <<>>
    /\ errors = <<>>
    /\ lexing = "idle"
    /\ prog = 1
    /\ pc = 1
    /\ status = "parsing"
    /\ last_value = Nil
    /\ last_error = NoError
    /\ environment = 1
    /\ heap = <<>>
    /\ promises = <<>>
    /\ stdout = <<>>
    /\ hash_order = <<>>
    /\ events = <<>>
    /\ call_stack = <<>>
    /\ evals = 0

ParseNext == ParseOk \/ ParseErr \/ ParseEof

ParseSpec == ParseInit /\ [][ParseNext]_vars

----------------------------------------------------------------------------
(* Properties.                                                             *)

\* The events of one kind, by their position in the history.
EventsOf(kind) == {i \in DOMAIN events : events[i].ev = kind}

\* What `name` resolves to in the evaluator's current environment.
Resolve(name) == Get(heap, hash_order, environment, name)

\* C1: a `return` evaluated at any block depth inside a function body ends
\* the call: the call yields the returned value, and no expression of the
\* body is evaluated after the `return`.
ReturnLeavesFunction ==
    \A i \in EventsOf("call") :
        events[i].returned =>
            /\ events[i].after = 0
            /\ events[i].res = "Ok"
            /\ events[i].out = events[i].retv

\* C2: when a Block (a function body included) has been evaluated, the
\* current environment is the one that was current before it, whether the
\* block completed, exited through `return` or exited through an error.
EnvironmentRestored ==
    \A i \in EventsOf("block") : events[i].after = events[i].previous

\* C3: `var x` inside a Block writes the block's child environment only:
\* every other environment is untouched and x resolves in the enclosing
\* scope as before; once the block has completed the evaluator is back in
\* the enclosing scope, so that `var x = 1 {..{ var x = 2  x = 3 }..}
\* var r = x` leaves x = 1 and r = 1 at the top level.
ScopeIsolation ==
    /\ \A i \in EventsOf("let") : events[i].others /\ events[i].outer
    /\ \A i \in EventsOf("block") :
          events[i].exit = "normal" => events[i].after = events[i].previous
    /\ FamilyOf(prog) = 3 /\ pc > 2 =>
          /\ environment = 1
          /\ Resolve("x") = <<Number(1)>>
          /\ pc > 3 => Resolve("r") = <<Number(1)>>

\* C3 witness: the scope script has run to its end, and its block declared
\* its own x in a child environment and completed.
ScopeIsolationWitness ==
    /\ FamilyOf(prog) = 3
    /\ status = "ok"
    /\ \E i \in EventsOf("let") :
          events[i].name = "x" /\ events[i].enclosing # 0
    /\ \E i \in EventsOf("block") : events[i].exit = "normal"

\* C5: an `await` that found its promise Pending and returned leaves the
\* promise settled: Fulfilled(v) when it returned v, Rejected when the
\* task failed.
AwaitSettlesPromise ==
    \A i \in EventsOf("await") :
        events[i].before.state = "Pending" /\ events[i].res # "Panic" =>
            IF events[i].res = "Ok"
            THEN /\ events[i].after = "Fulfilled"
                 /\ promises[events[i].p].value = events[i].out[1]
            ELSE events[i].after = "Rejected"

\* C6: once a promise has become Fulfilled(v) (an earlier `await` of it has
\* returned v), an `await` of it returns v without polling any task.
AwaitOfFulfilled ==
    \A i, j \in EventsOf("await") :
        i < j /\ events[i].p = events[j].p /\ events[i].res = "Ok" =>
            /\ ~events[j].polled
            /\ events[j].res = "Ok"
            /\ events[j].out = events[i].out

\* C7 (as stated): of two imports of the same file in one program, from
\* whatever scopes, at most one evaluates the module's body, and the second
\* succeeds and changes no environment (registry and bindings).
ImportOnce ==
    \A i, j \in EventsOf("import") :
        i < j /\ events[i].file = events[j].file =>
            /\ ~(events[i].evaluated /\ events[j].evaluated)
            /\ events[j].res = "Ok"
            /\ events[j].same

\* C7 (amended): once an import of a file has succeeded in an environment,
\* a later import of the same file in that same environment evaluates
\* nothing of the module's body, succeeds, and changes no environment.
ImportIdempotent ==
    \A i, j \in EventsOf("import") :
        /\ i < j
        /\ events[i].file = events[j].file
        /\ events[i].into = events[j].into
        /\ events[i].res = "Ok"
        => /\ ~events[j].evaluated
           /\ events[j].res = "Ok"
           /\ events[j].same

\* C7 witness: a file was imported, its body evaluated, and imported again
\* in the same environment.
ImportIdempotentWitness ==
    \E i, j \in EventsOf("import") :
        /\ i < j
        /\ events[i].file = events[j].file
        /\ events[i].into = events[j].into
        /\ events[i].res = "Ok"
        /\ events[i].evaluated

\* C8: `a or b` with a truthy and `a and b` with a falsy evaluate nothing of
\* b and yield the value of a.
ShortCircuit ==
    \A i \in EventsOf("logical") :
        \/ events[i].op = "Or" /\ IsTruthy(events[i].left)
        \/ events[i].op = "And" /\ ~IsTruthy(events[i].left)
        => /\ events[i].right_evals = 0
           /\ events[i].res = "Ok"
           /\ events[i].out = <<events[i].left>>

\* C8 witness: one run has short-circuited an `or` on a truthy left operand
\* and an `and` on a falsy one.
ShortCircuitWitness ==
    /\ \E i \in EventsOf("logical") :
          events[i].op = "Or" /\ IsTruthy(events[i].left)
    /\ \E i \in EventsOf("logical") :
          events[i].op = "And" /\ ~IsTruthy(events[i].left)

\* C9: with `var a = new C(1)  var b = a`, the field assignment made by
\* `b.setx(2)` is what `a.getx()` reads: the script ends with r = 2.
AliasingVisible ==
    FamilyOf(prog) = 14 /\ status # "running" =>
        /\ status = "ok"
        /\ Resolve("r") = <<Number(2)>>

\* C10: `new C()` succeeds and yields an Instance of C whose member
\* environment holds every method of C, here for a class without
\* `_construct`.
NewYieldsInstance ==
    FamilyOf(prog) = 13 /\ (pc > 2 \/ status # "running") =>
        /\ status # "error"
        /\ LET o == Resolve("o")
           IN  /\ Len(o) = 1
               /\ o[1].t = "Instance"
               /\ o[1].name = "C"
               /\ "get" \in DOMAIN heap[o[1].env].values

\* C11: a dictionary literal that evaluated a key which is not a string,
\* and a Set on a dictionary whose name part is not a string, end in a
\* runtime error: the literal yields no dictionary and the Set changes no
\* environment, so the bound dictionary is as it was.
DictionaryKeysAreStrings ==
    /\ \A i \in EventsOf("dict") :
          (\E j \in EventsOf("key") :
              events[i].first < j /\ j < i /\ events[j].key.t # "String")
          => events[i].res = "Err" /\ events[i].out = <<>>
    /\ \A i \in EventsOf("dict") :
          events[i].res = "Ok" =>
              \A k \in DOMAIN events[i].out[1].d :
                  \E j \in EventsOf("key") :
                      /\ events[i].first < j
                      /\ j < i
                      /\ events[j].key = String(k)
    /\ \A i \in EventsOf("set") :
          events[i].receiver.t = "Dictionary" /\ events[i].key.t # "String"
          => /\ events[i].res = "Err"
             /\ events[i].same
             /\ events[i].after = <<events[i].receiver>>

\* C11 witness: a literal with a non-string key and a Set with a non-string
\* key on a bound dictionary have both been evaluated.
DictionaryKeysWitness ==
    /\ \E i \in EventsOf("dict"), j \in EventsOf("key") :
          events[i].first < j /\ j < i /\ events[j].key.t # "String"
    /\ \E i \in EventsOf("set") :
          events[i].receiver.t = "Dictionary" /\ events[i].key.t # "String"

\* The number of newline characters before position p of the text.
RECURSIVE NewlinesBefore(_)
NewlinesBefore(p) ==
    IF p <= 1 THEN 0
    ELSE NewlinesBefore(p - 1) + (IF chars[p - 1] = "\n" THEN 1 ELSE 0)

\* C12: every token and every recorded lexer error carries the 1-based
\* number of the line on which it begins: 1 plus the number of newline
\* characters before its first character.
TokenLines ==
    /\ \A i \in DOMAIN tokens :
          tokens[i].line = 1 + NewlinesBefore(tokens[i].at)
    /\ \A i \in DOMAIN errors :
          errors[i].line = 1 + NewlinesBefore(errors[i].at)

\* A character no arm of the lexer knows.
Unknown(c) ==
    /\ c \notin DOMAIN Punctuation
    /\ c \notin DOMAIN Operators
    /\ c \notin {"/", "\n", " ", "\t", "\r", "\""}
    /\ ~IsAlphanumeric(c)
    /\ c # "_"

\* The lexer has returned: the whole text was consumed, and the token list
\* ends with an Eof token and holds no other.
EndsWithOneEof ==
    /\ current >= Len(chars)
    /\ tokens # <<>>
    /\ \A i \in DOMAIN tokens :
          tokens[i].token_type = "Eof" <=> i = Len(tokens)

\* A turn of the loop on an unknown character records one error, emits no
\* token, and leaves the loop running on the character after it.
UnknownIsSkipped ==
    lexing = "run" /\ current < Len(chars) /\ Unknown(CharAt(current)) =>
        /\ lexing' = "run"
        /\ current' = current + 1
        /\ tokens' = tokens
        /\ Len(errors') = Len(errors) + 1
        /\ errors'[Len(errors')].kind = "UnexpectedCharacter"
        /\ errors'[Len(errors')].at = current + 1

\* C13: on every text the lexer terminates; it does not stop at an unknown
\* character but records it and goes on with the next one; and the token
\* list it returns ends with an Eof token and holds no other.
LexerTerminates ==
    /\ <>(lexing = "done")
    /\ [](lexing = "done" => EndsWithOneEof)
    /\ [][UnknownIsSkipped]_vars

\* C13 witness: the lexer has returned from a text with an unknown
\* character followed by a token.
LexerTerminatesWitness ==
    /\ lexing = "done"
    /\ EndsWithOneEof
    /\ \E i \in DOMAIN errors, j \in DOMAIN tokens :
          /\ errors[i].kind = "UnexpectedCharacter"
          /\ tokens[j].at > errors[i].at
          /\ tokens[j].token_type # "Eof"

\* The catch events of the TryCatch that ended as event i.
CatchesOf(i) ==
    {j \in EventsOf("catch") :
        /\ events[i].first < j
        /\ j < i
        /\ events[j].enclosing = events[i].previous
        /\ \A k \in EventsOf("try") :
              k < i /\ events[k].first < j /\ j < k =>
                  events[k].previous # events[i].previous}

LexicalScopeFirst ==
    \A i \in EventsOf("lookup") :
        Len(events[i].lexical) > 0 => events[i].res = events[i].lexical

\* C16: no call of a function, of an async function body or of a class
\* constructor ends with the Return pseudo-error; a `return` that is a
\* statement of the body itself makes its value the result of the call.
ReturnStaysInCall ==
    \A i \in EventsOf("call") :
        /\ events[i].err # "Return"
        /\ events[i].returned /\ events[i].after = 0 =>
              events[i].res = "Ok" /\ events[i].out = events[i].retv

\* C16 witness: a plain function and an async function body have each
\* evaluated a `return` and ended.
ReturnStaysInCallWitness ==
    /\ \E i \in EventsOf("call") :
          events[i].what = "function" /\ events[i].returned
    /\ \E i \in EventsOf("call") :
          events[i].what = "async" /\ events[i].returned

\* C17: of the parts of one Call, the callee is evaluated before every
\* argument, the receiver before every argument, and the arguments in
\* their order from left to right.
CallOrder ==
    \A i, j \in EventsOf("part") :
        events[i].call = events[j].call /\ events[j].part = "argument" =>
            /\ events[i].part \in {"callee", "receiver"} => i < j
            /\ events[i].part = "argument"
                 /\ events[i].nth < events[j].nth => i < j

\* C18: a call of a plain function with a number of arguments other than
\* its number of parameters raises ExpextedArgument whose `expected` is the
\* number of parameters and whose `got` is the number of arguments; nothing
\* of the body is evaluated and no binding is made.
ArityMismatchReported ==
    \A i \in EventsOf("arity") :
        /\ events[i].res = "Err"
        /\ events[i].error.kind = "ExpextedArgument"
        /\ events[i].error.exptected = events[i].params
        /\ events[i].error.got = events[i].arguments
        /\ events[i].heap_same
        /\ events[i].body_evals = 0
        /\ events[i].stdout_same

\* C19: with an instance o whose field x is 1 and a variable x = 5 of the
\* current scope, a Get of o's x reads 1, a Set of o's x to 7 leaves the
\* variable at 5, and the next Get of o's x reads 7.
FieldsAreTheInstancesOwn ==
    FamilyOf(prog) = 21 /\ status # "running" =>
        /\ status = "ok"
        /\ Resolve("r") = <<Number(1)>>
        /\ Resolve("x") = <<Number(5)>>
        /\ Resolve("s") = <<Number(7)>>

\* An index that is not one of 0 .. n-1 of the array.
OutOfBounds(array, index) ==
    index.t = "Number" /\ index.n \notin 0..(Len(array.a) - 1)

\* C20: a Get or Set on an array with a numeric index outside 0 .. n-1
\* raises InvalidGet, respectively InvalidSet, yields no element and
\* leaves the array as it was.
ArrayBoundsChecked ==
    /\ \A i \in EventsOf("get") :
          events[i].receiver.t = "Array"
            /\ OutOfBounds(events[i].receiver, events[i].key) =>
              /\ events[i].err = "InvalidGet"
              /\ events[i].out = <<>>
              /\ events[i].same
    /\ \A i \in EventsOf("set") :
          events[i].receiver.t = "Array"
            /\ OutOfBounds(events[i].receiver, events[i].key) =>
              /\ events[i].err = "InvalidSet"
              /\ events[i].same
              /\ events[i].after = <<events[i].receiver>>

\* An index that is one of 0 .. n-1 of the array.
InBounds(array, index) ==
    index.t = "Number" /\ index.n \in 0..(Len(array.a) - 1)

\* C21: a Set on an array variable with an index in range succeeds with the
\* value; afterwards the variable holds an array of the same length that
\* has the value at the index and every other element as before, and no
\* binding of any other name has changed.
ArraySetWrites ==
    \A i \in EventsOf("set") :
        events[i].receiver.t = "Array"
          /\ InBounds(events[i].receiver, events[i].key) =>
            /\ events[i].res = "Ok"
            /\ events[i].out = <<events[i].value>>
            /\ Len(events[i].after) = 1
            /\ LET old == events[i].receiver.a
                   new == events[i].after[1]
               IN  /\ new.t = "Array"
                   /\ Len(new.a) = Len(old)
                   /\ \A k \in DOMAIN old :
                         new.a[k] = IF k = events[i].key.n + 1
                                    THEN events[i].value ELSE old[k]
            /\ events[i].others

\* C21 witness: an element of an array of three has been set from inside a
\* nested block, and the array is bound under a second name as well.
ArraySetWitness ==
    \E i \in EventsOf("set") :
        /\ events[i].receiver.t = "Array"
        /\ InBounds(events[i].receiver, events[i].key)
        /\ Len(events[i].receiver.a) = 3
        /\ events[i].res = "Ok"
        /\ Resolve("c") # <<>>

\* C22: with `var b = a` for an array a and `var n = m` for a dictionary
\* m, the element set through b is what a's element reads, and the entry
\* set through n is what m's entry reads: the script ends with r = 9 and
\* s = 2.
AggregatesShared ==
    FamilyOf(prog) = 24 /\ status # "running" =>
        /\ status = "ok"
        /\ Resolve("r") = <<Number(9)>>
        /\ Resolve("s") = <<Number(2)>>

\* Two arrays of the same length with pairwise equal elements, two
\* dictionaries with the same keys and equal values, or two classes of the
\* same name.
SameAggregate(left, right) ==
    \/ left.t = "Array" /\ right.t = "Array" /\ left.a = right.a
    \/ left.t = "Dictionary" /\ right.t = "Dictionary" /\ left.d = right.d
    \/ left.t = "Class" /\ right.t = "Class" /\ left.name = right.name

\* C23: on two equal arrays, two equal dictionaries or two classes of the
\* same name, `==` yields true and `!=` yields false.
EqualityIsStructural ==
    \A i \in EventsOf("equal") :
        SameAggregate(events[i].left, events[i].right) =>
            events[i].res = (events[i].op = "EqualEqual")

\* C24: Parser::parse returns its statement list only when no parser error
\* was raised on the way; an error raised while the right-hand side of
\* `name = rhs` is parsed is not dropped.
ParserErrorsFatal ==
    parsing = "ok" => lost = 0

\* The parsed token list begins IDENT `.` IDENT `(`.
MethodCallTokens ==
    /\ Len(parser.tokens) > 4
    /\ parser.tokens[1].token_type = "IDENTIfIER"
    /\ parser.tokens[2].token_type = "Dot"
    /\ parser.tokens[3].token_type = "IDENTIfIER"
    /\ parser.tokens[4].token_type = "LeftParen"

\* C25: the statement parsed from IDENT `.` IDENT `(` args `)` is one Call
\* whose receiver is the first identifier and whose callee is the second.
MethodCallIsOneCall ==
    MethodCallTokens /\ Len(parsed) > 0 =>
        /\ parsed[1].k = "Call"
        /\ parsed[1].owner = <<ExprVariable(parser.tokens[1])>>
        /\ parsed[1].callee = ExprVariable(parser.tokens[3])

\* C26: a relative import made by a module's own body is resolved against
\* the directory of the module's file: the import of "k.al" by
\* /proj/lib/n.al finds /proj/lib/k.al and succeeds.
ModuleImportsFromOwnDirectory ==
    \A i \in EventsOf("import") :
        FileStem(events[i].file) = <<"k">> =>
            /\ events[i].file = Join(Parent(Join(ProjDir, ParsePath("lib/n.al"))),
                                     ParsePath("k.al"))
            /\ events[i].res = "Ok"

\* C27: a call of an async function evaluates nothing of the body and
\* returns a Pending promise; an `await` that polled the task of an async
\* call and returned a value comes after the body has run to its end and
\* returns the body's value, and what the body assigned to a variable of
\* the caller is read by the statements after the `await` (and not by
\* those before it).
AsyncCallDefersBody ==
    /\ \A i \in EventsOf("async") :
          events[i].body_evals = 0 /\ events[i].pending
    /\ \A i \in EventsOf("await") :
          /\ events[i].polled
          /\ events[i].res = "Ok"
          /\ events[i].before.future.kind = "async_call"
          => \E c \in EventsOf("call") :
                /\ c < i
                /\ events[c].what = "async"
                /\ events[c].res = "Ok"
                /\ events[c].out = events[i].out
    /\ FamilyOf(prog) = 27 /\ status = "ok" =>
          /\ Len(stdout) = 2
          /\ stdout[1].n = 1
          /\ stdout[2].n = 2

\* C27 witness: an async function has been called and an `await` has
\* polled its task and returned the body's value; the script whose async
\* body assigns a variable of the caller has run to its end.
AsyncCallWitness ==
    /\ FamilyOf(prog) = 27 /\ status = "ok"
    /\ \E j \in EventsOf("async"), i \in EventsOf("await") :
          /\ j < i
          /\ events[i].polled
          /\ events[i].res = "Ok"
          /\ events[i].before.future.kind = "async_call"

\* C28: the parameters of an async function are bound in an environment
\* of the call's own: once `var p = g(7)  var r = await p` has run, the
\* caller's environment has no binding named after g's parameter n, and a
\* variable n the caller declared before the call still holds its value.
AsyncParametersAreLocal ==
    /\ FamilyOf(prog) = 6 /\ status = "ok" =>
          "n" \notin DOMAIN heap[environment].values
    /\ FamilyOf(prog) = 28 /\ status = "ok" =>
          /\ heap[environment].values["n"].n = 1
          /\ stdout[Len(stdout)].n = 1

\* C29: two different files imported into one environment are two
\* modules: an import that succeeds, of a file no earlier import into that
\* environment named, evaluates the file's body; after `import "m.al"
\* import "lib/m.al"` the top-level bindings of both files are visible
\* (m of m.al is 1, q of lib/m.al is 5).
DistinctFilesDistinctModules ==
    /\ \A j \in EventsOf("import") :
          /\ events[j].res = "Ok"
          /\ \A i \in EventsOf("import") :
                i < j /\ events[i].into = events[j].into
                    => events[i].file # events[j].file
          => events[j].evaluated
    /\ FamilyOf(prog) = 29 /\ status = "ok" =>
          /\ Len(stdout) = 4
          /\ stdout[3].n = 1
          /\ stdout[4].n = 5

\* C30: the import of a module file on which the tokenizer records an
\* error fails: the file's body is not evaluated and the module is not
\* registered in the importing environment.
LexErrorFailsImport ==
    \A i \in EventsOf("import") :
        events[i].file \in DOMAIN Files /\ Files[events[i].file].errors > 0 =>
            /\ events[i].res = "Err"
            /\ ~events[i].evaluated
            /\ FileStem(events[i].file)[1]
                   \notin DOMAIN heap[events[i].into].modules

====
